---- MODULE Spec2Model ----
(***************************************************************************)
(* Model of the cycle-accurate DRAM controller core of Ramulator2_ECC:     *)
(* GenericDRAMController (send, priority_send, tick), ReqBuffer, the FRFCFS *)
(* scheduler and the DRAMNodeBase device tree (update_states,              *)
(* update_timing, get_preq_command, check_ready, check_rowbuffer_hit,      *)
(* check_node_open).  The concrete device tables (organization, timing     *)
(* edges, actions, prerequisites) are a reduced HBM3-like device.          *)
(***************************************************************************)
EXTENDS Integers, Sequences, FiniteSets, TLC

(***************************************************************************)
(* Bounds of the model.                                                    *)
(***************************************************************************)
\* last clock value a tick may start from
MaxClk == 7
DrainFrom == 2
DrainCycles == 7
MaxIssues == 3
\* number of requests the callers create (send and priority_send together)
MaxReqs == 3
\* ReqBuffer::max_size of the read, write, active and priority buffers
ReadMax == 1
WriteMax == 1
ActiveMax == 1
PriorityMax == 1

(***************************************************************************)
(* Request types and the device specification.                             *)
(***************************************************************************)
\* Request::Type plus the maintenance request types of the device
RequestType == [Read |-> 0, Write |-> 1, AllBankRefresh |-> 2]

m_levels == [channel |-> 0, bankgroup |-> 1, bank |-> 2, row |-> 3, column |-> 4]

\* number of nodes per level (index = level + 1)
m_organization == <<1, 2, 1, 2, 1>>

m_commands == {"ACT", "PRE", "PREA", "RD", "WR", "REFab"}

\* request.command == -1
NoCommand == "NONE"

m_command_scopes ==
  [ACT |-> m_levels.row, PRE |-> m_levels.bank, PREA |-> m_levels.channel,
   RD |-> m_levels.column, WR |-> m_levels.column, REFab |-> m_levels.channel]

m_command_meta ==
  [ACT   |-> [is_opening |-> TRUE,  is_closing |-> FALSE],
   PRE   |-> [is_opening |-> FALSE, is_closing |-> TRUE],
   PREA  |-> [is_opening |-> FALSE, is_closing |-> TRUE],
   RD    |-> [is_opening |-> FALSE, is_closing |-> FALSE],
   WR    |-> [is_opening |-> FALSE, is_closing |-> FALSE],
   REFab |-> [is_opening |-> FALSE, is_closing |-> FALSE]]

m_request_translations(type_id) ==
  CASE type_id = RequestType.Read -> "RD"
    [] type_id = RequestType.Write -> "WR"
    [] type_id = RequestType.AllBankRefresh -> "REFab"

m_timing_vals ==
  [nRCD |-> 2, nRAS |-> 2, nRP |-> 1, nRTP |-> 1, nWR |-> 2, nRRD |-> 1,
   nFAW |-> 3, nCCDS |-> 2, nCCDL |-> 3, nRFC |-> 2, nRTW |-> 4]

m_read_latency == 2

Edge(c, v, w, s) == [cmd |-> c, val |-> v, window |-> w, sibling |-> s]

\* timing edges of (level, cmd): TimingConsEntry {cmd, val, window, sibling}
m_timing_cons(level, cmd) ==
  CASE level = m_levels.channel /\ cmd = "ACT" ->
         << Edge("ACT", m_timing_vals.nRRD, 1, FALSE),
            Edge("ACT", m_timing_vals.nFAW, 2, FALSE),
            Edge("PREA", m_timing_vals.nRAS, 1, FALSE) >>
    [] level = m_levels.channel /\ cmd = "RD" ->
         << Edge("PREA", m_timing_vals.nRTP, 1, FALSE),
            Edge("WR", m_timing_vals.nRTW, 1, FALSE) >>
    [] level = m_levels.channel /\ cmd = "WR" ->
         << Edge("PREA", m_timing_vals.nWR, 1, FALSE) >>
    [] level = m_levels.channel /\ cmd = "PREA" ->
         << Edge("ACT", m_timing_vals.nRP, 1, FALSE),
            Edge("REFab", m_timing_vals.nRP, 1, FALSE) >>
    [] level = m_levels.channel /\ cmd = "PRE" ->
         << Edge("REFab", m_timing_vals.nRP, 1, FALSE) >>
    [] level = m_levels.channel /\ cmd = "REFab" ->
         << Edge("ACT", m_timing_vals.nRFC, 1, FALSE),
            Edge("REFab", m_timing_vals.nRFC, 1, FALSE),
            Edge("PREA", m_timing_vals.nRFC, 1, FALSE) >>
    [] level = m_levels.bankgroup /\ cmd = "RD" ->
         << Edge("RD", m_timing_vals.nCCDL, 1, FALSE),
            Edge("WR", m_timing_vals.nCCDL, 1, FALSE),
            Edge("RD", m_timing_vals.nCCDS, 1, TRUE),
            Edge("WR", m_timing_vals.nCCDS, 1, TRUE) >>
    [] level = m_levels.bankgroup /\ cmd = "WR" ->
         << Edge("RD", m_timing_vals.nCCDL, 1, FALSE),
            Edge("WR", m_timing_vals.nCCDL, 1, FALSE),
            Edge("RD", m_timing_vals.nCCDS, 1, TRUE),
            Edge("WR", m_timing_vals.nCCDS, 1, TRUE) >>
    [] level = m_levels.bank /\ cmd = "ACT" ->
         << Edge("RD", m_timing_vals.nRCD, 1, FALSE),
            Edge("WR", m_timing_vals.nRCD, 1, FALSE),
            Edge("PRE", m_timing_vals.nRAS, 1, FALSE) >>
    [] level = m_levels.bank /\ cmd = "PRE" ->
         << Edge("ACT", m_timing_vals.nRP, 1, FALSE) >>
    [] level = m_levels.bank /\ cmd = "RD" ->
         << Edge("PRE", m_timing_vals.nRTP, 1, FALSE) >>
    [] level = m_levels.bank /\ cmd = "WR" ->
         << Edge("PRE", m_timing_vals.nWR, 1, FALSE) >>
    [] OTHER -> << >>

(***************************************************************************)
(* The node tree.  A node is the sequence of node ids from the channel     *)
(* down to the node; its level is the length of the sequence minus one.    *)
(***************************************************************************)
NodeLevel(n) == Len(n) - 1
m_node_id(n) == n[Len(n)]

\* DRAMNodeBase constructor: children exist down to the level above "row"
m_child_nodes(n) ==
  IF NodeLevel(n) + 1 = m_levels.row \/ m_organization[NodeLevel(n) + 2] = 0
  THEN {}
  ELSE { Append(n, i) : i \in 0 .. (m_organization[NodeLevel(n) + 2] - 1) }

RECURSIVE NodesAt(_)
NodesAt(level) ==
  IF level = 0
  THEN { <<i>> : i \in 0 .. (m_organization[1] - 1) }
  ELSE UNION { m_child_nodes(n) : n \in NodesAt(level - 1) }

Nodes == UNION { NodesAt(l) : l \in 0 .. (m_levels.row - 1) }

\* addr_vec[level], levels counted from 0 as in the source
AV(addr_vec, level) == addr_vec[level + 1]

Max(a, b) == IF a >= b THEN a ELSE b

m_init_states(level) == IF level = m_levels.bank THEN "Closed" ELSE "N/A"

\* DRAMNodeBase constructor: the history of a command is as long as the
\* largest window of its timing edges at this level, filled with -1
RECURSIVE MaxWindow(_, _)
MaxWindow(edges, i) ==
  IF i > Len(edges) THEN 0 ELSE Max(edges[i].window, MaxWindow(edges, i + 1))

\* a history whose unused slots hold clock 0
InitHistory_zero(level, cmd) ==
  [k \in 1 .. MaxWindow(m_timing_cons(level, cmd), 1) |-> 0]

InitHistory(level, cmd) ==
  [k \in 1 .. MaxWindow(m_timing_cons(level, cmd), 1) |-> -1]

\* the device after construction: one record holding the fields of every node
InitDevice ==
  [m_state         |-> [n \in Nodes |-> m_init_states(NodeLevel(n))],
   m_row_state     |-> [n \in Nodes |-> {}],
   m_cmd_ready_clk |-> [n \in Nodes |-> [c \in m_commands |-> -1]],
   m_cmd_history   |-> [n \in Nodes |-> [c \in m_commands |-> InitHistory(NodeLevel(n), c)]]]

\* the bank-level nodes below (or equal to) node n
BanksBelow(n) ==
  { b \in NodesAt(m_levels.bank) : SubSeq(b, 1, Len(n)) = n }

(***************************************************************************)
(* Device tables: actions, prerequisites, row hits, row opens.             *)
(***************************************************************************)
\* m_actions[level][cmd] is defined
HasAction(level, cmd) ==
  \/ level = m_levels.bank /\ cmd \in {"ACT", "PRE"}
  \/ level = m_levels.channel /\ cmd = "PREA"

\* m_actions[level][cmd](node, cmd, target_id, clk)
m_actions(d, n, cmd, target_id) ==
  CASE NodeLevel(n) = m_levels.bank /\ cmd = "ACT" ->
         [d EXCEPT !.m_state[n] = "Opened",
                   !.m_row_state[n] = @ \cup {target_id}]
    [] NodeLevel(n) = m_levels.bank /\ cmd = "PRE" ->
         [d EXCEPT !.m_state[n] = "Closed", !.m_row_state[n] = {}]
    [] NodeLevel(n) = m_levels.channel /\ cmd = "PREA" ->
         [d EXCEPT !.m_state = [b \in Nodes |->
                                 IF b \in BanksBelow(n) THEN "Closed" ELSE @[b]],
                   !.m_row_state = [b \in Nodes |->
                                 IF b \in BanksBelow(n) THEN {} ELSE @[b]]]
    [] OTHER -> d

\* m_preqs[level][cmd](node, cmd, addr_vec, clk); -1 (NoCommand) when the
\* table has no entry for (level, cmd)
m_preqs(d, n, cmd, addr_vec) ==
  CASE NodeLevel(n) = m_levels.channel /\ cmd = "REFab" ->
         IF \A b \in BanksBelow(n) : d.m_state[b] = "Closed"
         THEN cmd ELSE "PREA"
    [] NodeLevel(n) = m_levels.bank /\ cmd \in {"RD", "WR"} ->
         IF d.m_state[n] = "Closed" THEN "ACT"
         ELSE IF AV(addr_vec, m_levels.row) \in d.m_row_state[n] THEN cmd
         ELSE "PRE"
    [] OTHER -> NoCommand

HasRowhit(level, cmd) == level = m_levels.bank /\ cmd \in {"RD", "WR"}

\* m_rowhits[level][cmd](node, cmd, target_id, clk)
m_rowhits(d, n, cmd, target_id) ==
  d.m_state[n] = "Opened" /\ target_id \in d.m_row_state[n]

HasRowopen(level, cmd) == level = m_levels.bank /\ cmd \in {"RD", "WR"}

\* m_rowopens[level][cmd](node, cmd, target_id, clk)
m_rowopens(d, n, cmd, target_id) == d.m_state[n] = "Opened"

(***************************************************************************)
(* DRAMNodeBase operations.  d is the device record, n the node the        *)
(* method is called on.                                                    *)
(***************************************************************************)
\* children in the order of m_child_nodes (by node id)
ChildSeq(n) == [i \in 1 .. Cardinality(m_child_nodes(n)) |-> Append(n, i - 1)]

\* a state update that runs the bank action of ACT and PRE on every bank of
\* the channel, whatever bank the address vector names
update_states_every_bank(d, n, command, addr_vec, clk) ==
  IF command = "ACT"
  THEN [d EXCEPT !.m_state = [b \in Nodes |->
                                IF b \in BanksBelow(n) THEN "Opened" ELSE @[b]],
                 !.m_row_state = [b \in Nodes |->
                                IF b \in BanksBelow(n)
                                THEN @[b] \cup {AV(addr_vec, m_levels.row)}
                                ELSE @[b]]]
  ELSE IF command \in {"PRE", "PREA"}
  THEN [d EXCEPT !.m_state = [b \in Nodes |->
                                IF b \in BanksBelow(n) THEN "Closed" ELSE @[b]],
                 !.m_row_state = [b \in Nodes |->
                                IF b \in BanksBelow(n) THEN {} ELSE @[b]]]
  ELSE d

RECURSIVE update_states(_, _, _, _, _)
RECURSIVE update_states_children(_, _, _, _, _, _)
update_states(d, n, command, addr_vec, clk) ==
  LET child_id == AV(addr_vec, NodeLevel(n) + 1)
      d1 == IF HasAction(NodeLevel(n), command)
            THEN m_actions(d, n, command, child_id)
            ELSE d
  IN  IF NodeLevel(n) = m_command_scopes[command] \/ m_child_nodes(n) = {}
      THEN d1
      ELSE IF child_id = -1
      THEN update_states_children(d1, ChildSeq(n), 1, command, addr_vec, clk)
      ELSE update_states(d1, Append(n, child_id), command, addr_vec, clk)

update_states_children(d, children, i, command, addr_vec, clk) ==
  IF i > Len(children) THEN d
  ELSE update_states_children(
         update_states(d, children[i], command, addr_vec, clk),
         children, i + 1, command, addr_vec, clk)

\* a sibling loop that applies every edge of the command
RECURSIVE SiblingEdges_every_edge(_, _, _, _)
SiblingEdges_every_edge(ready, edges, i, clk) ==
  IF i > Len(edges) THEN ready
  ELSE SiblingEdges_every_edge(
         [ready EXCEPT ![edges[i].cmd] = Max(@, clk + edges[i].val)],
         edges, i + 1, clk)

\* the loops of update_timing over the timing edges of (level, command)
RECURSIVE SiblingEdges(_, _, _, _)
SiblingEdges(ready, edges, i, clk) ==
  IF i > Len(edges) THEN ready
  ELSE LET t == edges[i]
       IN  IF ~t.sibling
           THEN SiblingEdges(ready, edges, i + 1, clk)
           ELSE SiblingEdges([ready EXCEPT ![t.cmd] = Max(@, clk + t.val)],
                             edges, i + 1, clk)

\* a loop over the edges that assigns past + val to the ready clock
\* whatever the clock held before
RECURSIVE TargetEdges_assign(_, _, _, _)
TargetEdges_assign(ready, edges, i, history) ==
  IF i > Len(edges) THEN ready
  ELSE LET t == edges[i]
           past == history[t.window]
       IN  IF t.sibling \/ past < 0
           THEN TargetEdges_assign(ready, edges, i + 1, history)
           ELSE TargetEdges_assign([ready EXCEPT ![t.cmd] = past + t.val],
                                   edges, i + 1, history)

\* a loop that stops at the first edge it applies
RECURSIVE TargetEdges_first_only(_, _, _, _)
TargetEdges_first_only(ready, edges, i, history) ==
  IF i > Len(edges) THEN ready
  ELSE LET t == edges[i]
           past == history[t.window]
       IN  IF t.sibling \/ past < 0
           THEN TargetEdges_first_only(ready, edges, i + 1, history)
           ELSE [ready EXCEPT ![t.cmd] = Max(@, past + t.val)]

RECURSIVE TargetEdges(_, _, _, _)
TargetEdges(ready, edges, i, history) ==
  IF i > Len(edges) THEN ready
  ELSE LET t == edges[i]
           past == history[t.window]
       IN  IF t.sibling \/ past < 0
           THEN TargetEdges(ready, edges, i + 1, history)
           ELSE TargetEdges([ready EXCEPT ![t.cmd] = Max(@, past + t.val)],
                            edges, i + 1, history)

\* pop_back then push_front(clk), only when the history is not empty
PushHistory(h, clk) ==
  IF Len(h) = 0 THEN h ELSE <<clk>> \o SubSeq(h, 1, Len(h) - 1)

RECURSIVE update_timing(_, _, _, _, _)
RECURSIVE update_timing_children(_, _, _, _, _, _)
update_timing(d, n, command, addr_vec, clk) ==
  LET level == NodeLevel(n)
      edges == m_timing_cons(level, command)
  IN  IF m_node_id(n) # AV(addr_vec, level) /\ AV(addr_vec, level) # -1
      THEN [d EXCEPT !.m_cmd_ready_clk[n] = SiblingEdges(@, edges, 1, clk)]
      ELSE LET h  == PushHistory(d.m_cmd_history[n][command], clk)
               d1 == [d EXCEPT !.m_cmd_history[n][command] = h,
                               !.m_cmd_ready_clk[n] = TargetEdges(@, edges, 1, h)]
           IN  update_timing_children(d1, ChildSeq(n), 1, command, addr_vec, clk)

update_timing_children(d, children, i, command, addr_vec, clk) ==
  IF i > Len(children) THEN d
  ELSE update_timing_children(
         update_timing(d, children[i], command, addr_vec, clk),
         children, i + 1, command, addr_vec, clk)

\* a lookup that asks the node it is called on and no node below it
get_preq_command_root_only(d, n, command, addr_vec) ==
  IF m_preqs(d, n, command, addr_vec) # NoCommand
  THEN m_preqs(d, n, command, addr_vec)
  ELSE command

RECURSIVE get_preq_command(_, _, _, _)
get_preq_command(d, n, command, addr_vec) ==
  LET child_id == AV(addr_vec, NodeLevel(n) + 1)
      preq_cmd == m_preqs(d, n, command, addr_vec)
  IN  IF preq_cmd # NoCommand THEN preq_cmd
      ELSE IF m_child_nodes(n) = {} THEN command
      ELSE get_preq_command(d, Append(n, child_id), command, addr_vec)

\* a check_ready that looks at the node it is called on only and does not
\* descend to the children: C1 fails of it
check_ready_root(d, n, command, addr_vec, clk) ==
  ~(d.m_cmd_ready_clk[n][command] # -1 /\ clk < d.m_cmd_ready_clk[n][command])

RECURSIVE check_ready(_, _, _, _, _)
check_ready(d, n, command, addr_vec, clk) ==
  IF d.m_cmd_ready_clk[n][command] # -1 /\ clk < d.m_cmd_ready_clk[n][command]
  THEN FALSE
  ELSE LET child_id == AV(addr_vec, NodeLevel(n) + 1)
       IN  IF NodeLevel(n) = m_command_scopes[command] \/ m_child_nodes(n) = {}
           THEN TRUE
           ELSE IF child_id = -1
           THEN \A child \in m_child_nodes(n) :
                   check_ready(d, child, command, addr_vec, clk)
           ELSE check_ready(d, Append(n, child_id), command, addr_vec, clk)

\* a check that descends to the first child whatever the address names
RECURSIVE check_rowbuffer_hit_first_child(_, _, _, _)
check_rowbuffer_hit_first_child(d, n, command, addr_vec) ==
  IF HasRowhit(NodeLevel(n), command)
  THEN m_rowhits(d, n, command, AV(addr_vec, NodeLevel(n) + 1))
  ELSE IF m_child_nodes(n) = {} THEN FALSE
  ELSE check_rowbuffer_hit_first_child(d, Append(n, 0), command, addr_vec)

RECURSIVE check_rowbuffer_hit(_, _, _, _)
check_rowbuffer_hit(d, n, command, addr_vec) ==
  LET child_id == AV(addr_vec, NodeLevel(n) + 1)
  IN  IF HasRowhit(NodeLevel(n), command)
      THEN m_rowhits(d, n, command, child_id)
      ELSE IF m_child_nodes(n) = {} THEN FALSE
      ELSE check_rowbuffer_hit(d, Append(n, child_id), command, addr_vec)

RECURSIVE check_node_open(_, _, _, _)
check_node_open(d, n, command, addr_vec) ==
  LET child_id == AV(addr_vec, NodeLevel(n) + 1)
  IN  IF HasRowopen(NodeLevel(n), command)
      THEN m_rowopens(d, n, command, child_id)
      ELSE IF m_child_nodes(n) = {} THEN FALSE
      ELSE check_node_open(d, Append(n, child_id), command, addr_vec)

(***************************************************************************)
(* The IDRAM interface the controller calls: each call starts at the       *)
(* channel node named by addr_vec and uses the device clock, which ticks   *)
(* together with the controller clock.                                     *)
(***************************************************************************)
Channel(addr_vec) == << AV(addr_vec, m_levels.channel) >>

dram_issue_command(d, command, addr_vec, clk) ==
  update_states(update_timing(d, Channel(addr_vec), command, addr_vec, clk),
                Channel(addr_vec), command, addr_vec, clk)

dram_get_preq_command(d, command, addr_vec) ==
  get_preq_command(d, Channel(addr_vec), command, addr_vec)

dram_check_ready(d, command, addr_vec, clk) ==
  check_ready(d, Channel(addr_vec), command, addr_vec, clk)

dram_check_rowbuffer_hit(d, command, addr_vec) ==
  check_rowbuffer_hit(d, Channel(addr_vec), command, addr_vec)

dram_check_node_open(d, command, addr_vec) ==
  check_node_open(d, Channel(addr_vec), command, addr_vec)

(***************************************************************************)
(* Requests and request buffers.                                           *)
(***************************************************************************)
\* the physical addresses of the device
Addrs == 0 .. (m_organization[2] * m_organization[3] * m_organization[4] * m_organization[5] - 1)

\* the (type, address) pairs the frontend sends: reads of two rows of one
\* bank and of a row of the other bank, and a write
Trace ==
  { <<RequestType.Read, 0>>, <<RequestType.Read, 1>>, <<RequestType.Read, 2>>,
    <<RequestType.Write, 0>> }

\* address mapper: physical address -> address vector (column is the least
\* significant digit, channel the most significant one)
AddrMap(addr) ==
  LET col == addr % m_organization[5]
      a1  == addr \div m_organization[5]
      row == a1 % m_organization[4]
      a2  == a1 \div m_organization[4]
      bk  == a2 % m_organization[3]
      a3  == a2 \div m_organization[3]
      bg  == a3 % m_organization[2]
      ch  == a3 \div m_organization[2]
  IN  <<ch, bg, bk, row, col>>

\* Request(addr, type): the fields of a freshly constructed request; id is
\* the identity of the request object across the copies the buffers hold
Request(id, addr, addr_vec, type) ==
  [id |-> id, addr |-> addr, addr_vec |-> addr_vec, type_id |-> type,
   command |-> NoCommand, final_command |-> NoCommand,
   is_stat_updated |-> FALSE, arrive |-> -1, depart |-> -1,
   scratchpad |-> <<0, 0, 0, 0>>]

\* ReqBuffer::enqueue
enqueue(buffer, max_size, request) ==
  IF Len(buffer) <= max_size
  THEN [ok |-> TRUE, buffer |-> Append(buffer, request)]
  ELSE [ok |-> FALSE, buffer |-> buffer]

\* ReqBuffer::remove(it), it pointing at position i
remove(buffer, i) ==
  SubSeq(buffer, 1, i - 1) \o SubSeq(buffer, i + 1, Len(buffer))

(***************************************************************************)
(* FRFCFS scheduler.                                                       *)
(***************************************************************************)
\* a comparator that lets the later position win a tie on arrive
compare_later_on_tie(d, clk, buffer, req1, req2) ==
  LET ready1 == dram_check_ready(d, buffer[req1].command, buffer[req1].addr_vec, clk)
      ready2 == dram_check_ready(d, buffer[req2].command, buffer[req2].addr_vec, clk)
  IN  IF ready1 # ready2
      THEN (IF ready1 THEN req1 ELSE req2)
      ELSE IF buffer[req1].arrive < buffer[req2].arrive THEN req1 ELSE req2

\* FRFCFS::compare on two positions of the buffer; returns the position
compare(d, clk, buffer, req1, req2) ==
  LET ready1 == dram_check_ready(d, buffer[req1].command, buffer[req1].addr_vec, clk)
      ready2 == dram_check_ready(d, buffer[req2].command, buffer[req2].addr_vec, clk)
  IN  IF ready1 # ready2
      THEN (IF ready1 THEN req1 ELSE req2)
      ELSE IF buffer[req1].arrive <= buffer[req2].arrive THEN req1 ELSE req2

RECURSIVE BestFrom(_, _, _, _, _)
BestFrom(d, clk, buffer, candidate, next) ==
  IF next > Len(buffer) THEN candidate
  ELSE BestFrom(d, clk, buffer, compare(d, clk, buffer, candidate, next), next + 1)

\* a scheduler that moves the request it returns to the front of the buffer
get_best_request_to_front(d, clk, buffer) ==
  IF Len(buffer) = 0
  THEN [it |-> 0, buffer |-> buffer]
  ELSE LET resolved == [i \in 1 .. Len(buffer) |->
                          [buffer[i] EXCEPT !.command =
                             dram_get_preq_command(d, buffer[i].final_command,
                                                   buffer[i].addr_vec)]]
           it == BestFrom(d, clk, resolved, 1, 2)
       IN  [it |-> 1, buffer |-> <<resolved[it]>> \o remove(resolved, it)]

\* FRFCFS::get_best_request: it (0 stands for end()) and the buffer with the
\* command of every request resolved
get_best_request(d, clk, buffer) ==
  IF Len(buffer) = 0
  THEN [it |-> 0, buffer |-> buffer]
  ELSE LET resolved == [i \in 1 .. Len(buffer) |->
                          [buffer[i] EXCEPT !.command =
                             dram_get_preq_command(d, buffer[i].final_command,
                                                   buffer[i].addr_vec)]]
       IN  [it |-> BestFrom(d, clk, resolved, 1, 2), buffer |-> resolved]

(***************************************************************************)
(* PRACScheduler.  The PRAC plugin is given by what the scheduler asks of  *)
(* it: next_recovery is the value of next_recovery_cycle(), min_cycles the *)
(* value of min_cycles_with_preall(req) for every request id; sclk is the  *)
(* scheduler's own m_clk.                                                  *)
(***************************************************************************)
FITS_IDX == 0
READY_IDX == 1

\* the int a bool is stored as in a scratchpad slot
BoolToInt(b) == IF b THEN 1 ELSE 0

\* std::array index i (from 0) of a scratchpad
Slot(i) == i + 1

\* a compare that looks at the ready slot before the fits slot
prac_compare_ready_first(buffer, req1, req2) ==
  LET fits1 == buffer[req1].scratchpad[Slot(FITS_IDX)] # 0
      fits2 == buffer[req2].scratchpad[Slot(FITS_IDX)] # 0
      ready1 == buffer[req1].scratchpad[Slot(READY_IDX)] # 0
      ready2 == buffer[req2].scratchpad[Slot(READY_IDX)] # 0
  IN  IF ready1 # ready2
      THEN (IF ready1 THEN req1 ELSE req2)
      ELSE IF fits1 # fits2
      THEN (IF fits1 THEN req1 ELSE req2)
      ELSE IF buffer[req1].arrive <= buffer[req2].arrive THEN req1 ELSE req2

\* PRACScheduler::compare on two positions of the buffer
prac_compare(buffer, req1, req2) ==
  LET fits1 == buffer[req1].scratchpad[Slot(FITS_IDX)] # 0
      fits2 == buffer[req2].scratchpad[Slot(FITS_IDX)] # 0
      ready1 == buffer[req1].scratchpad[Slot(READY_IDX)] # 0
      ready2 == buffer[req2].scratchpad[Slot(READY_IDX)] # 0
  IN  IF fits1 # fits2
      THEN (IF fits1 THEN req1 ELSE req2)
      ELSE IF ready1 # ready2
      THEN (IF ready1 THEN req1 ELSE req2)
      ELSE IF buffer[req1].arrive <= buffer[req2].arrive THEN req1 ELSE req2

RECURSIVE PracBestFrom(_, _, _)
PracBestFrom(buffer, candidate, next) ==
  IF next > Len(buffer) THEN candidate
  ELSE PracBestFrom(buffer, prac_compare(buffer, candidate, next), next + 1)

\* the body of the first loop of PRACScheduler::get_best_request
prac_mark(d, clk, sclk, next_recovery, min_cycles, req, command) ==
  [req EXCEPT !.command = command,
              !.scratchpad[Slot(FITS_IDX)] =
                 BoolToInt(sclk + min_cycles[req.id] < next_recovery),
              !.scratchpad[Slot(READY_IDX)] =
                 BoolToInt(dram_check_ready(d, command, req.addr_vec, clk))]

\* the second loop of PRACScheduler::get_best_request
prac_fold(marked) ==
  [it |-> PracBestFrom(marked, 1, 2), buffer |-> marked]

\* PRACScheduler::get_best_request: it (0 stands for end()) and the buffer
\* with command and scratchpad slots 0 and 1 of every request written
prac_get_best_request(d, clk, sclk, next_recovery, min_cycles, buffer) ==
  IF Len(buffer) = 0
  THEN [it |-> 0, buffer |-> buffer]
  ELSE prac_fold([i \in 1 .. Len(buffer) |->
                    prac_mark(d, clk, sclk, next_recovery, min_cycles, buffer[i],
                              dram_get_preq_command(d, buffer[i].final_command,
                                                    buffer[i].addr_vec))])

(***************************************************************************)
(* GenericDRAMController: state.                                           *)
(***************************************************************************)
VARIABLES
  m_clk,              \* Clocked::m_clk
  pending,            \* std::deque<Request> pending
  m_active_buffer,    \* ReqBuffer, as a sequence of requests
  m_priority_buffer,
  m_read_buffer,
  m_write_buffer,
  m_is_write_mode,
  stats,              \* the s_* counters
  dram,               \* the device: the fields of every node
  next_id,            \* identity given to the next request a caller creates
  call,               \* the last call made on the controller and its result
  tk,                 \* what the last tick did (scheduling and issue)
  log,                \* per request: what has happened to it so far
  completed,          \* the requests popped from pending, in order
  m_curr_trace_idx,   \* the trace frontend's m_curr_trace_idx
  m_active_max_size   \* m_active_buffer.max_size

ctrl == <<m_clk, pending, m_active_buffer, m_priority_buffer, m_read_buffer,
          m_write_buffer, m_is_write_mode, stats>>
vars == <<m_clk, pending, m_active_buffer, m_priority_buffer, m_read_buffer,
          m_write_buffer, m_is_write_mode, stats, dram, next_id, call, tk,
          log, completed, m_curr_trace_idx,
                 m_active_max_size>>

\* wr_low_watermark / wr_high_watermark defaults 0.2f and 0.8f, in tenths
m_wr_low_watermark == [num |-> 2, den |-> 10]
m_wr_high_watermark == [num |-> 8, den |-> 10]

InitStats ==
  [s_row_hits |-> 0, s_row_misses |-> 0, s_row_conflicts |-> 0,
   s_read_row_hits |-> 0, s_read_row_misses |-> 0, s_read_row_conflicts |-> 0,
   s_write_row_hits |-> 0, s_write_row_misses |-> 0, s_write_row_conflicts |-> 0,
   s_num_read_reqs |-> 0, s_num_write_reqs |-> 0, s_num_other_reqs |-> 0,
   s_queue_len |-> 0, s_read_queue_len |-> 0, s_write_queue_len |-> 0,
   s_priority_queue_len |-> 0, s_read_latency |-> 0]

\* no request: the placeholder of a call that carries none
NoRequest == Request(0, -1, <<>>, -1)

NoTick ==
  [found |-> FALSE, src |-> "none", id |-> 0, command |-> NoCommand,
   addr_vec |-> <<>>, timing_ok |-> TRUE, prio_size |-> 0,
   guard_hit |-> FALSE, due_left |-> FALSE, popped |-> 0, rw_ready |-> FALSE,
   wm_runs |-> 0, steps |-> <<>>, chosen |-> NoRequest, issued |-> NoRequest,
   stored |-> {}]

InitLog ==
  [i \in 1 .. MaxReqs |->
     [accepted |-> FALSE, forwarded |-> FALSE, type_id |-> -1,
      n_pending |-> 0, n_final |-> 0, n_issued |-> 0, n_opening |-> 0,
      n_ecc |-> 0]]

\* the controller after construction and init, max_size the max_size of
\* the active buffer
InitController(max_size) ==
  /\ m_active_max_size = max_size
  /\ m_clk = 0
  /\ pending = <<>>
  /\ m_active_buffer = <<>>
  /\ m_priority_buffer = <<>>
  /\ m_read_buffer = <<>>
  /\ m_write_buffer = <<>>
  /\ m_is_write_mode = FALSE
  /\ stats = InitStats
  /\ dram = InitDevice
  /\ next_id = 1
  /\ call = [op |-> "init", ret |-> TRUE, req |-> NoRequest]
  /\ tk = NoTick
  /\ log = InitLog
  /\ completed = <<>>
  /\ m_curr_trace_idx = 0

Init == InitController(ActiveMax)

(***************************************************************************)
(* GenericDRAMController::send                                             *)
(***************************************************************************)
\* the s_num_*_reqs switch at the top of send
count_request(st, type_id) ==
  IF type_id = RequestType.Read
  THEN [st EXCEPT !.s_num_read_reqs = @ + 1]
  ELSE IF type_id = RequestType.Write
  THEN [st EXCEPT !.s_num_write_reqs = @ + 1]
  ELSE [st EXCEPT !.s_num_other_reqs = @ + 1]

\* std::find_if(m_write_buffer, compare_addr) != end()
is_forwarded(write_buffer, req) ==
  /\ req.type_id = RequestType.Read
  /\ \E i \in 1 .. Len(write_buffer) : write_buffer[i].addr = req.addr

\* a forwarding that departs in the cycle of the send: C7 fails of it
forward_now(req, clk) == [req EXCEPT !.depart = clk]

\* the request as pushed to pending by the forwarding branch
forward(req, clk) == [req EXCEPT !.depart = clk + 1]

\* send(req0), req0 the request as the caller constructed it
send(req0) ==
  /\ next_id <= MaxReqs
  /\ LET type == req0.type_id
         req == [req0 EXCEPT !.final_command = m_request_translations(type)]
         arrived == [req EXCEPT !.arrive = m_clk]
         rd == enqueue(m_read_buffer, ReadMax, arrived)
         wr == enqueue(m_write_buffer, WriteMax, arrived)
     IN  /\ stats' = count_request(stats, type)
         /\ IF is_forwarded(m_write_buffer, req)
            THEN /\ pending' = Append(pending, forward(req, m_clk))
                 /\ UNCHANGED <<m_read_buffer, m_write_buffer>>
                 /\ call' = [op |-> "send", ret |-> TRUE,
                             req |-> forward(req, m_clk)]
                 /\ log' = [log EXCEPT ![next_id] =
                              [@ EXCEPT !.accepted = TRUE, !.forwarded = TRUE,
                                        !.type_id = type, !.n_pending = @ + 1]]
            ELSE IF type = RequestType.Read
            THEN /\ m_read_buffer' = rd.buffer
                 /\ UNCHANGED <<pending, m_write_buffer>>
                 /\ call' = [op |-> "send", ret |-> rd.ok,
                             req |-> IF rd.ok THEN arrived ELSE req]
                 /\ log' = [log EXCEPT ![next_id].accepted = rd.ok,
                                        ![next_id].type_id = type]
            ELSE /\ m_write_buffer' = wr.buffer
                 /\ UNCHANGED <<pending, m_read_buffer>>
                 /\ call' = [op |-> "send", ret |-> wr.ok,
                             req |-> IF wr.ok THEN arrived ELSE req]
                 /\ log' = [log EXCEPT ![next_id].accepted = wr.ok,
                                        ![next_id].type_id = type]
  /\ next_id' = next_id + 1
  /\ UNCHANGED <<m_clk, m_active_buffer, m_priority_buffer, m_is_write_mode,
                 dram, tk, completed, m_active_max_size>>

\* a caller sends a request of the type to the physical address
Send(type, addr) ==
  /\ send(Request(next_id, addr, AddrMap(addr), type))
  /\ UNCHANGED m_curr_trace_idx

(***************************************************************************)
(* GenericDRAMController::priority_send                                    *)
(***************************************************************************)
\* a priority_send that puts the request in front of the waiting ones: C39
\* fails of it
priority_send_at_head(priority_buffer, req) ==
  LET r == enqueue(priority_buffer, PriorityMax,
                   [req EXCEPT !.final_command = m_request_translations(req.type_id)])
  IN  [r EXCEPT !.buffer = IF r.ok
                           THEN <<r.buffer[Len(r.buffer)]>> \o priority_buffer
                           ELSE priority_buffer]

priority_send(priority_buffer, req) ==
  enqueue(priority_buffer, PriorityMax,
          [req EXCEPT !.final_command = m_request_translations(req.type_id)])

\* the maintenance request of the refresh manager: an all-bank refresh of
\* the channel
RefreshRequest(id) ==
  Request(id, -1, <<0, -1, -1, -1, -1>>, RequestType.AllBankRefresh)

PrioritySend(req) ==
  /\ next_id <= MaxReqs
  /\ LET r == priority_send(m_priority_buffer, req)
     IN  /\ m_priority_buffer' = r.buffer
         /\ call' = [op |-> "priority_send", ret |-> r.ok, req |-> NoRequest]
  /\ next_id' = next_id + 1
  /\ UNCHANGED <<m_clk, pending, m_active_buffer, m_read_buffer, m_write_buffer,
                 m_is_write_mode, stats, dram, tk, log, completed,
                 m_curr_trace_idx,
                 m_active_max_size>>

(***************************************************************************)
(* GenericDRAMController::tick and its helpers.                            *)
(***************************************************************************)
\* a completion step that calls back the due head and leaves it in pending
serve_completed_reads_keeps_head(pend, st, clk) ==
  IF Len(pend) # 0 /\ pend[1].depart <= clk
  THEN [pending |-> pend,
        stats   |-> IF pend[1].depart - pend[1].arrive > 1
                    THEN [st EXCEPT !.s_read_latency =
                                      @ + (pend[1].depart - pend[1].arrive)]
                    ELSE st,
        popped  |-> <<pend[1]>>]
  ELSE [pending |-> pend, stats |-> st, popped |-> <<>>]

\* serve_completed_reads: the head of pending is looked at once
serve_completed_reads(pend, st, clk) ==
  IF Len(pend) # 0 /\ pend[1].depart <= clk
  THEN [pending |-> Tail(pend),
        stats   |-> IF pend[1].depart - pend[1].arrive > 1
                    THEN [st EXCEPT !.s_read_latency =
                                      @ + (pend[1].depart - pend[1].arrive)]
                    ELSE st,
        popped  |-> <<pend[1]>>]
  ELSE [pending |-> pend, stats |-> st, popped |-> <<>>]

\* an entering rule that also switches at exactly the high watermark: the
\* amended C11 fails of it
write_mode_rule_at_high(write_mode, read_size, write_size, low, high, max_size) ==
  IF ~write_mode
  THEN (IF write_size * high.den >= high.num * max_size \/ read_size = 0
        THEN TRUE ELSE write_mode)
  ELSE (IF write_size * low.den < low.num * max_size /\ read_size # 0
        THEN FALSE ELSE write_mode)

\* a leaving rule that also switches back at exactly the low watermark: C12
\* fails of it
write_mode_rule_at_low(write_mode, read_size, write_size, low, high, max_size) ==
  IF ~write_mode
  THEN (IF write_size * high.den > high.num * max_size \/ read_size = 0
        THEN TRUE ELSE write_mode)
  ELSE (IF write_size * low.den <= low.num * max_size /\ read_size # 0
        THEN FALSE ELSE write_mode)

\* the body of set_write_mode on the sizes of the buffers, the watermarks
\* (fractions num / den) and the max_size of the write buffer
write_mode_rule(write_mode, read_size, write_size, low, high, max_size) ==
  IF ~write_mode
  THEN (IF write_size * high.den > high.num * max_size \/ read_size = 0
        THEN TRUE ELSE write_mode)
  ELSE (IF write_size * low.den < low.num * max_size /\ read_size # 0
        THEN FALSE ELSE write_mode)

\* a set_write_mode that leaves write mode as soon as reads are waiting,
\* whatever the write buffer holds: C13 fails of it
set_write_mode_no_low(write_mode, read_buffer, write_buffer) ==
  IF write_mode /\ Len(read_buffer) # 0
  THEN FALSE
  ELSE write_mode_rule(write_mode, Len(read_buffer), Len(write_buffer),
                       m_wr_low_watermark, m_wr_high_watermark, WriteMax)

\* a set_write_mode that never leaves write mode: reads wait behind the
\* flag for ever and C35 fails of it
set_write_mode_sticky(write_mode, read_buffer, write_buffer) ==
  IF write_mode THEN TRUE
  ELSE write_mode_rule(write_mode, Len(read_buffer), Len(write_buffer),
                       m_wr_low_watermark, m_wr_high_watermark, WriteMax)

\* set_write_mode: the new value of m_is_write_mode
set_write_mode(write_mode, read_buffer, write_buffer) ==
  write_mode_rule(write_mode, Len(read_buffer), Len(write_buffer),
                  m_wr_low_watermark, m_wr_high_watermark, WriteMax)

\* a schedule_request without the early return of step 2.2.1: C8 fails of it
priority_never_yields(request_found, priority_size) == FALSE

\* the early return of step 2.2.1: the priority head is not ready
priority_yields(request_found, priority_size) ==
  ~request_found /\ priority_size # 0

\* a comparison in which -1 matches nothing but -1: C9 fails of it
is_matching_exact(it_rowgroup, rowgroup) ==
  \A i \in 0 .. m_levels.bank : AV(it_rowgroup, i) = AV(rowgroup, i)

\* the comparison of the closing-command guard: rowgroup of an active
\* request against the rowgroup of the chosen request, levels 0 .. bank
is_matching(it_rowgroup, rowgroup) ==
  \A i \in 0 .. m_levels.bank :
     ~(/\ AV(it_rowgroup, i) # AV(rowgroup, i)
       /\ AV(it_rowgroup, i) # -1
       /\ AV(rowgroup, i) # -1)

\* a schedule_request without the closing-command guard: C10 fails of it
closing_guard_off(active_buffer, command, addr_vec) == FALSE

\* step 2.3 of schedule_request: the chosen command closes a row that an
\* active request still needs
closing_guard(active_buffer, command, addr_vec) ==
  /\ m_command_meta[command].is_closing
  /\ \E i \in 1 .. Len(active_buffer) :
        is_matching(active_buffer[i].addr_vec, addr_vec)

\* the outcome of schedule_request before any buffer was looked at: the
\* buffers, the write-mode flag, request_found (found), the chosen request
\* as the buffer it is in (src) and its position (it), and the number of
\* times set_write_mode ran (wm_runs)
NoSchedule(active, priority, read, write, write_mode) ==
  [found |-> FALSE, src |-> "none", it |-> 0, guard_hit |-> FALSE,
   active |-> active, priority |-> priority, read |-> read,
   write |-> write, write_mode |-> write_mode, wm_runs |-> 0]

\* a step 2.2.2 that takes the best request without asking check_ready: C38
\* fails of it
schedule_read_write_best_unchecked(d, clk, s, wm, rw, none_src, none_it) ==
  [s EXCEPT !.found = rw.it # 0,
            !.src = IF rw.it = 0 THEN none_src
                    ELSE IF wm THEN "write" ELSE "read",
            !.it = IF rw.it = 0 THEN none_it ELSE rw.it,
            !.read = IF wm THEN @ ELSE rw.buffer,
            !.write = IF wm THEN rw.buffer ELSE @,
            !.write_mode = wm,
            !.wm_runs = @ + 1]

\* step 2.2.2 with the best request rw of the buffer the write mode selects;
\* req_it stays where it was (none_src, none_it) when that buffer is empty
schedule_read_write_best(d, clk, s, wm, rw, none_src, none_it) ==
  [s EXCEPT !.found = /\ rw.it # 0
                      /\ dram_check_ready(d, rw.buffer[rw.it].command,
                                          rw.buffer[rw.it].addr_vec, clk),
            !.src = IF rw.it = 0 THEN none_src
                    ELSE IF wm THEN "write" ELSE "read",
            !.it = IF rw.it = 0 THEN none_it ELSE rw.it,
            !.read = IF wm THEN @ ELSE rw.buffer,
            !.write = IF wm THEN rw.buffer ELSE @,
            !.write_mode = wm,
            !.wm_runs = @ + 1]

\* step 2.2.2: the read or the write buffer, by the write mode wm
schedule_read_write(d, clk, s, wm, none_src, none_it) ==
  schedule_read_write_best(d, clk, s, wm,
                           get_best_request(d, clk, IF wm THEN s.write ELSE s.read),
                           none_src, none_it)

\* step 2.2.1 once the command of the priority head is resolved and its
\* readiness p_found is known
schedule_priority_head(d, clk, s, p_found) ==
  IF priority_yields(p_found, Len(s.priority))
  THEN [s EXCEPT !.src = "priority", !.it = 1]
  ELSE IF p_found
  THEN [s EXCEPT !.found = TRUE, !.src = "priority", !.it = 1]
  ELSE schedule_read_write(d, clk, s,
                           set_write_mode(s.write_mode, s.read, s.write),
                           "priority", 1)

\* step 2.2.1: the head of the priority buffer, its command resolved in place
schedule_priority(d, clk, s) ==
  schedule_priority_head(d, clk, s,
                         dram_check_ready(d, s.priority[1].command,
                                          s.priority[1].addr_vec, clk))

\* step 2.2: the priority buffer first, then the read or the write buffer
schedule_buffers(d, clk, s) ==
  IF Len(s.priority) # 0
  THEN schedule_priority(d, clk,
         [s EXCEPT !.priority[1].command =
                     dram_get_preq_command(d, s.priority[1].final_command,
                                           s.priority[1].addr_vec)])
  ELSE schedule_read_write(d, clk, s,
                           set_write_mode(s.write_mode, s.read, s.write),
                           "none", 0)

\* a schedule that looks at a non-empty priority buffer before the active one
schedule_active_after_priority(d, clk, s, a) ==
  IF /\ Len(s.priority) = 0
     /\ a.it # 0
     /\ dram_check_ready(d, a.buffer[a.it].command, a.buffer[a.it].addr_vec, clk)
  THEN [s EXCEPT !.found = TRUE, !.src = "active", !.it = a.it,
                 !.active = a.buffer]
  ELSE schedule_buffers(d, clk, [s EXCEPT !.active = a.buffer])

\* step 2.1: the active buffer first, a the best request of it
schedule_active(d, clk, s, a) ==
  IF /\ a.it # 0
     /\ dram_check_ready(d, a.buffer[a.it].command, a.buffer[a.it].addr_vec, clk)
  THEN [s EXCEPT !.found = TRUE, !.src = "active", !.it = a.it,
                 !.active = a.buffer]
  ELSE schedule_buffers(d, clk, [s EXCEPT !.active = a.buffer])

\* the buffer the chosen request is in
chosen_buffer(s) ==
  CASE s.src = "active" -> s.active
    [] s.src = "priority" -> s.priority
    [] s.src = "read" -> s.read
    [] s.src = "write" -> s.write
    [] OTHER -> <<>>

\* step 2.3: a found closing command an active request still needs the row
\* of is not issued
schedule_guard(s) ==
  IF s.found /\ closing_guard(s.active, chosen_buffer(s)[s.it].command,
                              chosen_buffer(s)[s.it].addr_vec)
  THEN [s EXCEPT !.found = FALSE, !.guard_hit = TRUE]
  ELSE s

\* schedule_request: the buffers with the commands the schedulers resolved,
\* the write-mode flag, request_found, and the chosen request
schedule_request(d, clk, active, priority, read, write, write_mode) ==
  schedule_guard(
    schedule_active(d, clk,
                    NoSchedule(active, priority, read, write, write_mode),
                    get_best_request(d, clk, active)))

\* crediting that asks whether the bank is open before it asks for a hit
update_request_stats_open_first(st, d, req) ==
  LET open == dram_check_node_open(d, req.final_command, req.addr_vec)
  IN  IF req.type_id = RequestType.Read
      THEN (IF open
            THEN [st EXCEPT !.s_read_row_conflicts = @ + 1, !.s_row_conflicts = @ + 1]
            ELSE [st EXCEPT !.s_read_row_misses = @ + 1, !.s_row_misses = @ + 1])
      ELSE IF req.type_id = RequestType.Write
      THEN (IF open
            THEN [st EXCEPT !.s_write_row_conflicts = @ + 1, !.s_row_conflicts = @ + 1]
            ELSE [st EXCEPT !.s_write_row_misses = @ + 1, !.s_row_misses = @ + 1])
      ELSE st

\* crediting that knows no conflict: what is not a hit is a miss
update_request_stats_no_conflict(st, d, req) ==
  LET hit == dram_check_rowbuffer_hit(d, req.final_command, req.addr_vec)
  IN  IF req.type_id = RequestType.Read
      THEN (IF hit THEN [st EXCEPT !.s_read_row_hits = @ + 1, !.s_row_hits = @ + 1]
            ELSE [st EXCEPT !.s_read_row_misses = @ + 1, !.s_row_misses = @ + 1])
      ELSE IF req.type_id = RequestType.Write
      THEN (IF hit THEN [st EXCEPT !.s_write_row_hits = @ + 1, !.s_row_hits = @ + 1]
            ELSE [st EXCEPT !.s_write_row_misses = @ + 1, !.s_row_misses = @ + 1])
      ELSE st

\* update_request_stats: the counters after crediting the request, looked up
\* with its final command on the device state before the command issues
update_request_stats(st, d, req) ==
  LET hit  == dram_check_rowbuffer_hit(d, req.final_command, req.addr_vec)
      open == dram_check_node_open(d, req.final_command, req.addr_vec)
  IN  IF req.type_id = RequestType.Read
      THEN (IF hit THEN [st EXCEPT !.s_read_row_hits = @ + 1, !.s_row_hits = @ + 1]
            ELSE IF open
            THEN [st EXCEPT !.s_read_row_conflicts = @ + 1, !.s_row_conflicts = @ + 1]
            ELSE [st EXCEPT !.s_read_row_misses = @ + 1, !.s_row_misses = @ + 1])
      ELSE IF req.type_id = RequestType.Write
      THEN (IF hit THEN [st EXCEPT !.s_write_row_hits = @ + 1, !.s_row_hits = @ + 1]
            ELSE IF open
            THEN [st EXCEPT !.s_write_row_conflicts = @ + 1, !.s_row_conflicts = @ + 1]
            ELSE [st EXCEPT !.s_write_row_misses = @ + 1, !.s_row_misses = @ + 1])
      ELSE st

\* the queue-length sums accumulated at the top of tick
account_queues(st, read, write, priority, pend) ==
  [st EXCEPT !.s_queue_len = @ + Len(read) + Len(write) + Len(priority) + Len(pend),
             !.s_read_queue_len = @ + Len(read) + Len(pend),
             !.s_write_queue_len = @ + Len(write),
             !.s_priority_queue_len = @ + Len(priority)]

\* the nodes a command addresses: every node from the channel down to the
\* scope of the command whose ids agree with the address vector, -1 in the
\* address vector agreeing with every id
PathNodes(command, addr_vec) ==
  { n \in Nodes :
      /\ NodeLevel(n) <= m_command_scopes[command]
      /\ \A l \in 0 .. NodeLevel(n) :
            AV(addr_vec, l) = -1 \/ AV(addr_vec, l) = n[l + 1] }

\* a completion that pushes every request to pending, writes too: the
\* amended C2 fails of it
complete_any(pend, req, clk) ==
  Append(pend, [req EXCEPT !.depart = clk + m_read_latency])

\* a completion that lets a read depart at the clock of its final command
complete_at_issue(pend, req, clk) ==
  IF req.type_id = RequestType.Read
  THEN Append(pend, [req EXCEPT !.depart = clk])
  ELSE pend

\* the final command of a request issued: a read departs after the read
\* latency and is pushed to pending, a write is not
complete(pend, req, clk) ==
  IF req.type_id = RequestType.Read
  THEN Append(pend, [req EXCEPT !.depart = clk + m_read_latency])
  ELSE pend

\* a tick that leaves a request in its buffer after its opening command
leaves_buffer_final_only(is_final, is_opening) == is_final

\* a tick that removes the request from its buffer after every command
leaves_buffer_always(is_final, is_opening) == TRUE

\* the request leaves its buffer after its final command (served) and after
\* an opening command (moved to the active buffer)
leaves_buffer(is_final, is_opening) == is_final \/ is_opening

\* the plugins of the controller in the order of their registration
m_plugins == <<"plugin 0", "plugin 1">>

\* a plugin that advances the request it is passed to its final command
ecc_update_to_final(request_found, req) ==
  [req |-> IF request_found THEN [req EXCEPT !.command = req.final_command]
           ELSE req,
   stored |-> IF request_found THEN {req.addr} ELSE {},
   handled |-> IF request_found
                  /\ req.type_id \in {RequestType.Read, RequestType.Write}
               THEN 1 ELSE 0]

\* ECCPlugin::update: the request it leaves behind and the addresses whose
\* data block it stored in m_data_storage. The body runs under
\* if (request_found); it reads type_id, addr and m_payload of the request
\* and writes m_data_storage, m_ecc_storage and its counters (handled: a
\* Write adds its blocks and EDC_SIZE and the ECC size to the totals, a Read
\* makes one EDC check, whatever command the request is at); the one write
\* through the request is the memcpy into the block m_payload points to,
\* under if (req_it->m_payload), and m_payload is nullptr in every request
\* the frontends construct
ecc_update(request_found, req) ==
  [req |-> req,
   stored |-> IF request_found THEN {req.addr} ELSE {},
   handled |-> IF request_found
                  /\ req.type_id \in {RequestType.Read, RequestType.Write}
               THEN 1 ELSE 0]

\* for (auto plugin : m_plugins) plugin->update(request_found, req_it): the
\* request after the plugins from position i on were updated
RECURSIVE plugins_update(_, _, _)
plugins_update(request_found, req, i) ==
  IF i > Len(m_plugins) THEN req
  ELSE plugins_update(request_found, ecc_update(request_found, req).req, i + 1)

\* step 4 of tick for a found request: the buffers, pending and the device
\* after the command of position it of buffer src issued
issue(sch, pend, st, d, clk) ==
  LET buf == CASE sch.src = "active" -> sch.active
               [] sch.src = "priority" -> sch.priority
               [] sch.src = "read" -> sch.read
               [] OTHER -> sch.write
      req0 == plugins_update(TRUE, buf[sch.it], 1)
      st1 == IF req0.is_stat_updated THEN st ELSE update_request_stats(st, d, req0)
      req == [req0 EXCEPT !.is_stat_updated = TRUE]
      d1 == dram_issue_command(d, req.command, req.addr_vec, clk)
      is_final == req.command = req.final_command
      is_opening == m_command_meta[req.command].is_opening
      pend1 == IF is_final THEN complete(pend, req, clk) ELSE pend
      \* the source buffer after the request was updated in place and, when
      \* it leaves the buffer, removed
      leaves == leaves_buffer(is_final, is_opening)
      src1 == IF leaves THEN remove(buf, sch.it)
              ELSE [buf EXCEPT ![sch.it] = req]
      act0 == IF sch.src = "active" THEN [buf EXCEPT ![sch.it] = req] ELSE sch.active
      \* m_active_buffer.enqueue(*req_it) precedes buffer->remove(req_it)
      act1 == IF ~is_final /\ is_opening
              THEN enqueue(act0, m_active_max_size, req).buffer ELSE act0
      act2 == IF sch.src = "active" /\ leaves THEN remove(act1, sch.it)
              ELSE act1
  IN  [pending  |-> pend1, stats |-> st1, dram |-> d1, req |-> req,
       is_final |-> is_final,
       active   |-> act2,
       priority |-> IF sch.src = "priority" THEN src1 ELSE sch.priority,
       read     |-> IF sch.src = "read" THEN src1 ELSE sch.read,
       write    |-> IF sch.src = "write" THEN src1 ELSE sch.write]

\* a step of tick and, for m_rowpolicy->update, plugin->update and
\* issue_command, the request_found and request they are passed
Step(name, found, req) ==
  [name |-> name, found |-> found,
   id |-> IF found THEN req.id ELSE 0,
   command |-> IF found THEN req.command ELSE NoCommand]

\* a tick that issues the command before the row policy and the plugins
\* are updated
tick_steps_issue_first(sch, iss) ==
  <<Step("serve_completed_reads", FALSE, NoRequest),
    Step("m_refresh->tick", FALSE, NoRequest),
    Step("schedule_request", FALSE, NoRequest)>>
  \o (IF sch.found THEN <<Step("issue_command", TRUE, iss.req)>> ELSE <<>>)
  \o <<Step("m_rowpolicy->update", sch.found, iss.req)>>
  \o [i \in 1 .. Len(m_plugins) |-> Step(m_plugins[i], sch.found, iss.req)]

\* the steps of tick in the order it takes them: the row policy and the
\* plugins are passed request_found and req_it of schedule_request, the
\* device the request as issue_command receives it
tick_steps(sch, iss) ==
  <<Step("serve_completed_reads", FALSE, NoRequest),
    Step("m_refresh->tick", FALSE, NoRequest),
    Step("schedule_request", FALSE, NoRequest),
    Step("m_rowpolicy->update", sch.found,
         IF sch.found THEN chosen_buffer(sch)[sch.it] ELSE NoRequest)>>
  \o [i \in 1 .. Len(m_plugins) |->
        Step(m_plugins[i], sch.found,
             IF sch.found THEN chosen_buffer(sch)[sch.it] ELSE NoRequest)]
  \o (IF sch.found THEN <<Step("issue_command", TRUE, iss.req)>> ELSE <<>>)

\* the state after tick: srv the outcome of serve_completed_reads, sch of
\* schedule_request, iss of issuing the chosen request
tick_commit(clk, srv, sch, iss, prio_size, due_left, rw_ready) ==
  /\ m_clk' = clk
  /\ m_is_write_mode' = sch.write_mode
  /\ completed' = completed \o srv.popped
  /\ IF sch.found
     THEN /\ pending' = iss.pending
          /\ stats' = iss.stats
          /\ dram' = iss.dram
          /\ m_active_buffer' = iss.active
          /\ m_priority_buffer' = iss.priority
          /\ m_read_buffer' = iss.read
          /\ m_write_buffer' = iss.write
          /\ log' = [log EXCEPT ![iss.req.id] =
                       [@ EXCEPT !.n_issued = @ + 1,
                          !.n_final = IF iss.is_final THEN @ + 1 ELSE @,
                          !.n_opening =
                            IF m_command_meta[iss.req.command].is_opening
                            THEN @ + 1 ELSE @,
                          !.n_pending = IF Len(iss.pending) > Len(srv.pending)
                                        THEN @ + 1 ELSE @,
                          !.n_ecc = @ + ecc_update(TRUE,
                                          chosen_buffer(sch)[sch.it]).handled]]
          /\ tk' = [found |-> TRUE, src |-> sch.src, id |-> iss.req.id,
                    command |-> iss.req.command, addr_vec |-> iss.req.addr_vec,
                    timing_ok |->
                      \A n \in PathNodes(iss.req.command, iss.req.addr_vec) :
                        \/ dram.m_cmd_ready_clk[n][iss.req.command] = -1
                        \/ dram.m_cmd_ready_clk[n][iss.req.command] <= clk,
                    prio_size |-> prio_size, guard_hit |-> FALSE,
                    due_left |-> due_left, popped |-> Len(srv.popped),
                    rw_ready |-> rw_ready, wm_runs |-> sch.wm_runs,
                    steps |-> tick_steps(sch, iss),
                    chosen |-> chosen_buffer(sch)[sch.it],
                    issued |-> iss.req,
                    stored |-> ecc_update(TRUE, chosen_buffer(sch)[sch.it]).stored]
     ELSE /\ pending' = srv.pending
          /\ stats' = srv.stats
          /\ dram' = dram
          /\ m_active_buffer' = sch.active
          /\ m_priority_buffer' = sch.priority
          /\ m_read_buffer' = sch.read
          /\ m_write_buffer' = sch.write
          /\ log' = log
          /\ tk' = [NoTick EXCEPT !.src = sch.src,
                    !.prio_size = prio_size, !.guard_hit = sch.guard_hit,
                    !.due_left = due_left, !.popped = Len(srv.popped),
                    !.rw_ready = rw_ready, !.wm_runs = sch.wm_runs,
                    !.steps = tick_steps(sch, iss),
                    !.stored = ecc_update(FALSE, NoRequest).stored]

\* steps 3 and 4 of tick: m_rowpolicy->update (open-row policy) and the
\* plugins observe the chosen request and leave the controller as it is,
\* then the chosen request issues
tick_issue(clk, srv, sch, prio_size) ==
  tick_commit(clk, srv, sch,
              issue(sch, srv.pending, srv.stats, dram, clk),
              prio_size,
              Len(srv.pending) # 0 /\ srv.pending[1].depart <= clk,
              \E b \in {m_read_buffer, m_write_buffer} :
                \E i \in 1 .. Len(b) :
                  dram_check_ready(dram,
                    dram_get_preq_command(dram, b[i].final_command, b[i].addr_vec),
                    b[i].addr_vec, clk))

\* steps 1 and 2 of tick with the priority buffer prio after m_refresh->tick()
tick_schedule(clk, prio) ==
  tick_issue(clk,
             serve_completed_reads(pending,
                                   account_queues(stats, m_read_buffer, m_write_buffer,
                                                  m_priority_buffer, pending),
                                   clk),
             schedule_request(dram, clk, m_active_buffer, prio, m_read_buffer,
                              m_write_buffer, m_is_write_mode),
             Len(prio))

\* tick; m_refresh->tick(): the refresh manager may send an all-bank refresh
tick(refresh) ==
  /\ refresh => next_id <= MaxReqs
  /\ tick_schedule(m_clk + 1,
                   IF refresh
                   THEN priority_send(m_priority_buffer, RefreshRequest(next_id)).buffer
                   ELSE m_priority_buffer)
  /\ next_id' = IF refresh THEN next_id + 1 ELSE next_id
  /\ call' = [op |-> "tick", ret |-> TRUE, req |-> NoRequest,
              refresh |-> refresh]
  /\ UNCHANGED <<m_curr_trace_idx, m_active_max_size>>

\* the ticks of a run of MaxClk cycles
Tick(refresh) ==
  /\ m_clk < MaxClk
  /\ tick(refresh)

Next ==
  \/ \E t \in Trace : Send(t[1], t[2])
  \/ PrioritySend(RefreshRequest(next_id))
  \/ \E refresh \in BOOLEAN : Tick(refresh)

Spec == Init /\ [][Next]_vars

\* a controller whose active buffer holds fewer requests than the device
\* has banks: max_size is a field of ReqBuffer that nothing relates to the
\* organization of the device
SpecSmallActive == InitController(ActiveMax - 1) /\ [][Next]_vars

(***************************************************************************)
(* set_write_mode under the watermark settings of a configuration: the     *)
(* callers fill the buffers with send and the rule is applied to the       *)
(* buffers as they are.                                                    *)
(***************************************************************************)
\* values of the parameters wr_low_watermark and wr_high_watermark: the
\* defaults 0.2 and 0.8, and 0.5 and 1.0
Watermarks ==
  { [num |-> 2, den |-> 10], [num |-> 1, den |-> 2],
    [num |-> 8, den |-> 10], [num |-> 1, den |-> 1] }

SetWriteMode(low, high) ==
  /\ low.num * high.den <= high.num * low.den
  /\ m_is_write_mode' = write_mode_rule(m_is_write_mode, Len(m_read_buffer),
                                        Len(m_write_buffer), low, high, WriteMax)
  /\ call' = [op |-> "set_write_mode", ret |-> TRUE, req |-> NoRequest,
              was |-> m_is_write_mode, low |-> low, high |-> high]
  /\ UNCHANGED <<m_clk, pending, m_active_buffer, m_priority_buffer,
                 m_read_buffer, m_write_buffer, stats, dram, next_id, tk, log,
                 completed, m_curr_trace_idx,
                 m_active_max_size>>

NextWriteMode ==
  \/ \E t \in Trace : Send(t[1], t[2])
  \/ \E low, high \in Watermarks : SetWriteMode(low, high)

SpecWriteMode == Init /\ [][NextWriteMode]_vars

(***************************************************************************)
(* The trace frontends.  Each tick of a frontend sends the entry at        *)
(* m_curr_trace_idx through the memory system to the controller; the       *)
(* controller ticks in between and the refresh manager sends nothing.      *)
(***************************************************************************)
\* m_trace, as init_trace loaded it: three loads and a store
m_trace ==
  << [is_write |-> FALSE, addr |-> 0], [is_write |-> FALSE, addr |-> 1],
     [is_write |-> FALSE, addr |-> 2], [is_write |-> TRUE, addr |-> 0] >>

\* t.is_write ? Request::Type::Write : Request::Type::Read
TraceType(t) == IF t.is_write THEN RequestType.Write ELSE RequestType.Read

\* LoadStoreTrace::tick: the index advances when the request was sent
LoadStoreTraceTick ==
  /\ send(Request(next_id, m_trace[m_curr_trace_idx + 1].addr,
                  AddrMap(m_trace[m_curr_trace_idx + 1].addr),
                  TraceType(m_trace[m_curr_trace_idx + 1])))
  /\ m_curr_trace_idx' = IF call'.ret
                         THEN (m_curr_trace_idx + 1) % Len(m_trace)
                         ELSE m_curr_trace_idx

\* ReadWriteTrace::tick: the entry holds an address vector, the request is
\* constructed of it (its addr stays -1), and the index always advances
ReadWriteTraceTick ==
  /\ send(Request(next_id, -1, AddrMap(m_trace[m_curr_trace_idx + 1].addr),
                  TraceType(m_trace[m_curr_trace_idx + 1])))
  /\ m_curr_trace_idx' = (m_curr_trace_idx + 1) % Len(m_trace)

NextLoadStoreTrace ==
  \/ LoadStoreTraceTick
  \/ Tick(FALSE)

SpecLoadStoreTrace == Init /\ [][NextLoadStoreTrace]_vars

NextReadWriteTrace ==
  \/ ReadWriteTraceTick
  \/ Tick(FALSE)

SpecReadWriteTrace == Init /\ [][NextReadWriteTrace]_vars

(***************************************************************************)
(* The controller without maintenance: the frontend sends, the controller  *)
(* ticks, and the refresh manager sends nothing.                           *)
(***************************************************************************)
NextNoRefresh ==
  \/ \E t \in Trace : Send(t[1], t[2])
  \/ Tick(FALSE)

SpecNoRefresh == Init /\ [][NextNoRefresh]_vars

(***************************************************************************)
(* The schedulers called on their own: get_best_request of FRFCFS and of   *)
(* PRACScheduler on a buffer of the controller, between sends and ticks.   *)
(***************************************************************************)
BufferNames == {"active", "read", "write"}

BufferOf(name) ==
  IF name = "active" THEN m_active_buffer
  ELSE IF name = "read" THEN m_read_buffer
  ELSE m_write_buffer

\* the values next_recovery_cycle() returns
NextRecovery == {4, 8}

\* the values min_cycles_with_preall(req) returns, for every request id
MinCycles == [1 .. MaxReqs -> {1, 4}]

\* the call has run on the named buffer with result r; prac is what the PRAC
\* plugin answered (nothing for FRFCFS, which asks nothing)
scheduler_called(scheduler, name, r, prac) ==
  /\ m_active_buffer' = IF name = "active" THEN r.buffer ELSE m_active_buffer
  /\ m_read_buffer' = IF name = "read" THEN r.buffer ELSE m_read_buffer
  /\ m_write_buffer' = IF name = "write" THEN r.buffer ELSE m_write_buffer
  /\ call' = [op |-> "get_best_request", ret |-> r.it # 0, req |-> NoRequest,
              scheduler |-> scheduler, buffer |-> name, it |-> r.it,
              prac |-> prac]
  /\ UNCHANGED <<m_clk, pending, m_priority_buffer, m_is_write_mode, stats,
                 dram, next_id, tk, log, completed, m_curr_trace_idx,
                 m_active_max_size>>

\* m_scheduler->get_best_request(buffer) with the FRFCFS scheduler
GetBestRequest(name) ==
  scheduler_called("FRFCFS", name,
                   get_best_request(dram, m_clk, BufferOf(name)), <<>>)

\* m_scheduler->get_best_request(buffer) with the PRAC scheduler
PracGetBestRequest(name, next_recovery, min_cycles) ==
  scheduler_called("PRAC", name,
                   prac_get_best_request(dram, m_clk, m_clk, next_recovery,
                                         min_cycles, BufferOf(name)),
                   [next_recovery |-> next_recovery, min_cycles |-> min_cycles])

\* the controller is driven by sends and ticks; a run ends with a call of
\* the scheduler
NextScheduler ==
  \/ call.op # "get_best_request" /\ \E t \in Trace : Send(t[1], t[2])
  \/ call.op # "get_best_request" /\ Tick(FALSE)
  \/ call.op # "get_best_request" /\ \E name \in BufferNames : GetBestRequest(name)
  \/ /\ call.op # "get_best_request"
     /\ \E name \in BufferNames, next_recovery \in NextRecovery,
           min_cycles \in MinCycles :
           PracGetBestRequest(name, next_recovery, min_cycles)

SpecScheduler == Init /\ [][NextScheduler]_vars

(***************************************************************************)
(* The device on its own: issue_command called with any command on any     *)
(* address, at increasing clocks.                                          *)
(***************************************************************************)
\* the commands and address vectors issue_command is called with: a command
\* of channel scope addresses the channel, the others a row of a bank
DeviceCalls ==
  { <<c, AddrMap(a)>> : c \in {"ACT", "PRE", "RD", "WR"}, a \in {0, 1, 2} }
    \cup { <<c, <<0, -1, -1, -1, -1>>>> : c \in {"PREA", "REFab"} }

\* the clocks that pass between two calls
Gaps == {1, 3}

\* the calls of issue_command made so far
Issued == IF call.op = "issue_command" THEN call.issued ELSE <<>>

IssueCommand(command, addr_vec, gap) ==
  /\ Len(Issued) < MaxIssues
  /\ m_clk + gap <= MaxClk
  /\ m_clk' = m_clk + gap
  /\ dram' = dram_issue_command(dram, command, addr_vec, m_clk + gap)
  /\ call' = [op |-> "issue_command", ret |-> TRUE, req |-> NoRequest,
              issued |-> Append(Issued, [command |-> command,
                                         addr_vec |-> addr_vec,
                                         clk |-> m_clk + gap])]
  /\ UNCHANGED <<pending, m_active_buffer, m_priority_buffer, m_read_buffer,
                 m_write_buffer, m_is_write_mode, stats, next_id, tk, log,
                 completed, m_curr_trace_idx,
                 m_active_max_size>>

NextDevice ==
  \E c \in DeviceCalls, gap \in Gaps : IssueCommand(c[1], c[2], gap)

SpecDevice == Init /\ [][NextDevice]_vars

(***************************************************************************)
(* get_preq_command called on the device between calls of issue_command:   *)
(* with the final command of a request (RD, WR at an address, REFab at the *)
(* channel) and with ACT and PRE at an address; a run ends with the call.  *)
(***************************************************************************)
GetPreqCommand(command, addr_vec) ==
  /\ call' = [op |-> "get_preq_command", ret |-> TRUE, req |-> NoRequest,
              command |-> command, addr_vec |-> addr_vec,
              preq |-> dram_get_preq_command(dram, command, addr_vec)]
  /\ UNCHANGED <<m_clk, pending, m_active_buffer, m_priority_buffer,
                 m_read_buffer, m_write_buffer, m_is_write_mode, stats, dram,
                 next_id, tk, log, completed, m_curr_trace_idx,
                 m_active_max_size>>

NextPreq ==
  \/ /\ call.op # "get_preq_command"
     /\ \E c \in DeviceCalls, gap \in Gaps : IssueCommand(c[1], c[2], gap)
  \/ /\ call.op # "get_preq_command"
     /\ \E c \in DeviceCalls : c[1] # "PREA" /\ GetPreqCommand(c[1], c[2])

SpecPreq == Init /\ [][NextPreq]_vars

(***************************************************************************)
(* Scenario S3 (row conflict): a read, then a read of another row of the   *)
(* same bank, on a device whose banks are closed; no refresh.              *)
(***************************************************************************)
\* the sends of the scenario: the first read goes to any address, the
\* second one to another row of the bank of the first
S3Send(addr) ==
  /\ next_id <= 2
  /\ next_id = 2 =>
       LET held == m_read_buffer \o m_active_buffer \o pending \o completed
       IN  \E i \in 1 .. Len(held) :
             /\ held[i].id = 1
             /\ \A l \in 0 .. m_levels.bank :
                   AV(AddrMap(addr), l) = AV(held[i].addr_vec, l)
             /\ AV(AddrMap(addr), m_levels.row) # AV(held[i].addr_vec, m_levels.row)
  /\ Send(RequestType.Read, addr)

NextS3 ==
  \/ \E addr \in Addrs : S3Send(addr)
  \/ Tick(FALSE)

SpecS3 == Init /\ [][NextS3]_vars

(***************************************************************************)
(* Draining.  The callers and the refresh manager send during the first    *)
(* DrainFrom cycles and then stop; the controller goes on ticking, for     *)
(* DrainCycles cycles for each request it may hold.                        *)
(***************************************************************************)
DrainSend(type, addr) ==
  /\ m_clk < DrainFrom
  /\ Send(type, addr)

DrainTick(refresh) ==
  /\ m_clk < DrainFrom + DrainCycles * MaxReqs
  /\ refresh => m_clk < DrainFrom
  /\ tick(refresh)

NextDrain ==
  \/ \E t \in Trace : DrainSend(t[1], t[2])
  \/ \E refresh \in BOOLEAN : DrainTick(refresh)

\* the frontend ticks the memory system, and with it the controller, in
\* every cycle of the run: tick is the one step that advances m_clk, and it
\* can be taken in every state before the last cycle
SpecDrain ==
  Init /\ [][NextDrain]_vars
       /\ WF_m_clk(m_clk < DrainFrom + DrainCycles * MaxReqs /\ m_clk' = m_clk + 1)

(***************************************************************************)
(* Properties.                                                             *)
(***************************************************************************)
Ids == 1 .. MaxReqs

BufferIds(buffer) == { buffer[i].id : i \in 1 .. Len(buffer) }

\* the bank node an address vector names
BankOf(addr_vec) ==
  << AV(addr_vec, m_levels.channel), AV(addr_vec, m_levels.bankgroup),
     AV(addr_vec, m_levels.bank) >>

\* two address vectors name the same row group: equal on every level from
\* the channel to the bank, -1 on either side standing for any id
SameRowGroup(v, w) ==
  \A l \in 0 .. m_levels.bank :
     AV(v, l) = AV(w, l) \/ AV(v, l) = -1 \/ AV(w, l) = -1

\* C1: every command the last tick issued was issued at a clock at which
\* every node on its address path, from the channel down to the scope of
\* the command, had the command's earliest ready cycle unset or not later
\* than the clock.
C1_TimingSafety == tk.found => tk.timing_ok

\* a read command issued for a request of the active buffer: the ACT that
\* opened its row constrained the RD at the bank
C1_Witness == tk.found /\ tk.command = "RD" /\ tk.src = "active"

C3_Capacity ==
  /\ Len(m_read_buffer) <= ReadMax
  /\ Len(m_write_buffer) <= WriteMax
  /\ Len(m_priority_buffer) <= PriorityMax
  /\ Len(m_active_buffer) <= ActiveMax

\* C4: the requests popped from pending so far have non-decreasing depart
\* values.
C4_FifoCompletion ==
  \A i, j \in 1 .. Len(completed) :
     i < j => completed[i].depart <= completed[j].depart

\* C5: after the completion step of the last tick, pending was empty or its
\* head had a depart later than the clock.
C5_CompletionDrains == ~tk.due_left

\* C6: a send that returns false leaves the buffers, pending, the write-mode
\* flag and every statistics counter as they were.
C6_FailedSendNoMutation ==
  [][(call'.op = "send" /\ ~call'.ret) => UNCHANGED ctrl]_vars

\* C7: a send of a read whose addr equals the addr of a write in the write
\* buffer returns true, gives the read depart = clk + 1, appends it to
\* pending and leaves the read and write buffers as they were; a forwarded
\* read is in no buffer and no command is ever issued for it.
C7_ReadForwarding ==
  [][/\ ( /\ call'.op = "send"
          /\ call'.req.type_id = RequestType.Read
          /\ \E i \in 1 .. Len(m_write_buffer) :
                m_write_buffer[i].addr = call'.req.addr )
        => /\ call'.ret
           /\ call'.req.depart = m_clk + 1
           /\ pending' = Append(pending, call'.req)
           /\ m_read_buffer' = m_read_buffer
           /\ m_write_buffer' = m_write_buffer
           /\ log'[call'.req.id].forwarded
     /\ \A id \in Ids :
          log'[id].forwarded =>
            /\ log'[id].n_issued = 0
            /\ id \notin BufferIds(m_read_buffer') \cup BufferIds(m_write_buffer')
                       \cup BufferIds(m_active_buffer') \cup BufferIds(m_priority_buffer')
    ]_vars

\* a forwarded read has been popped from pending
C7_Witness ==
  \E i \in 1 .. Len(completed) : log[completed[i].id].forwarded

\* C8: when the priority buffer was non-empty at the scheduling step of the
\* last tick, the tick issued no command for a request of the read or write
\* buffer: what it issued, if anything, came from the active buffer or was
\* the head of the priority buffer.
C8_MaintenancePrecedence ==
  tk.prio_size > 0 => (tk.found => tk.src \in {"active", "priority"})

\* the priority head was not ready and the tick issued nothing although a
\* request of the read or write buffer was ready
C8_Witness ==
  tk.prio_size > 0 /\ ~tk.found /\ ~tk.guard_hit /\ tk.rw_ready

\* C9: a tick never issues a closing command whose address names the row
\* group of a request that is in the active buffer at scheduling time; when
\* the guard rejects the chosen request nothing is issued.
C9_ClosingGuard ==
  [][call'.op = "tick" =>
       /\ (tk'.found /\ m_command_meta[tk'.command].is_closing) =>
             \A i \in 1 .. Len(m_active_buffer) :
                ~SameRowGroup(m_active_buffer[i].addr_vec, tk'.addr_vec)
       /\ tk'.guard_hit => (~tk'.found /\ dram' = dram)
    ]_vars

\* the guard rejected a ready closing command
C9_Witness == tk.guard_hit

\* C10: the row opened for a request of the active buffer is open in its
\* bank.
C10_ActiveRowStaysOpen ==
  \A i \in 1 .. Len(m_active_buffer) :
     LET a == m_active_buffer[i]
     IN  /\ dram.m_state[BankOf(a.addr_vec)] = "Opened"
         /\ AV(a.addr_vec, m_levels.row) \in dram.m_row_state[BankOf(a.addr_vec)]

\* a refresh waits in the priority buffer while a request of the active
\* buffer holds its row open
C10_Witness ==
  /\ Len(m_active_buffer) > 0
  /\ Len(m_priority_buffer) > 0
  /\ tk.guard_hit

\* C11 as claimed: not in write mode, set_write_mode sets the flag exactly
\* when the write buffer holds at least high watermark * max_size requests
\* or the read buffer is empty.
C11_Original ==
  [][(call'.op = "set_write_mode" /\ ~m_is_write_mode) =>
       (m_is_write_mode' <=>
          \/ Len(m_write_buffer) * call'.high.den >= call'.high.num * WriteMax
          \/ Len(m_read_buffer) = 0)
    ]_vars

\* C11 amended: not in write mode, set_write_mode sets the flag exactly when
\* the write buffer holds MORE than high watermark * max_size requests or
\* the read buffer is empty.
C11_EnterWriteMode ==
  [][(call'.op = "set_write_mode" /\ ~m_is_write_mode) =>
       (m_is_write_mode' <=>
          \/ Len(m_write_buffer) * call'.high.den > call'.high.num * WriteMax
          \/ Len(m_read_buffer) = 0)
    ]_vars

\* set_write_mode ran in read mode with reads waiting and the write buffer
\* filled to exactly the high watermark, and the controller stayed in read
\* mode
C11_Witness ==
  /\ call.op = "set_write_mode"
  /\ ~call.was
  /\ ~m_is_write_mode
  /\ Len(m_read_buffer) # 0
  /\ Len(m_write_buffer) * call.high.den = call.high.num * WriteMax

\* C12: in write mode, set_write_mode clears the flag exactly when the write
\* buffer holds fewer than low watermark * max_size requests and the read
\* buffer is not empty.
C12_LeaveWriteMode ==
  [][(call'.op = "set_write_mode" /\ m_is_write_mode) =>
       (~m_is_write_mode' <=>
          /\ Len(m_write_buffer) * call'.low.den < call'.low.num * WriteMax
          /\ Len(m_read_buffer) # 0)
    ]_vars

\* set_write_mode ran in write mode with reads waiting: once with the write
\* buffer at exactly the low watermark (the flag stays), once below it (the
\* flag is cleared)
C12_Witness ==
  /\ call.op = "set_write_mode"
  /\ call.was
  /\ Len(m_read_buffer) # 0
  /\ \/ /\ m_is_write_mode
        /\ Len(m_write_buffer) * call.low.den = call.low.num * WriteMax
     \/ /\ ~m_is_write_mode
        /\ Len(m_write_buffer) > 0

\* C13: set_write_mode runs at most once in a tick; send, priority_send and
\* every tick whose chosen request comes from the active buffer or whose
\* priority buffer is non-empty at scheduling time leave the write-mode flag
\* as it is; the flag goes from false to true only when the write buffer
\* holds at least high watermark * max_size requests or the read buffer is
\* empty, and from true to false only when the write buffer holds fewer than
\* low watermark * max_size requests and the read buffer is not empty.
C13_Hysteresis ==
  [][/\ tk'.wm_runs <= 1
     /\ call'.op \in {"send", "priority_send"} =>
           m_is_write_mode' = m_is_write_mode
     /\ (call'.op = "tick" /\ (tk'.src = "active" \/ tk'.prio_size > 0)) =>
           m_is_write_mode' = m_is_write_mode
     /\ (~m_is_write_mode /\ m_is_write_mode') =>
           /\ call'.op = "tick"
           /\ \/ Len(m_write_buffer) * m_wr_high_watermark.den
                   >= m_wr_high_watermark.num * WriteMax
              \/ Len(m_read_buffer) = 0
     /\ (m_is_write_mode /\ ~m_is_write_mode') =>
           /\ call'.op = "tick"
           /\ Len(m_write_buffer) * m_wr_low_watermark.den
                < m_wr_low_watermark.num * WriteMax
           /\ Len(m_read_buffer) # 0
    ]_vars

\* the controller has been in write mode and is back in read mode, and the
\* last tick served a request of the active buffer, leaving the flag alone
C13_Witness ==
  /\ ~m_is_write_mode
  /\ stats.s_num_write_reqs > 0
  /\ \E id \in Ids : log[id].type_id = RequestType.Write /\ log[id].n_final = 1
  /\ tk.found /\ tk.src = "active"

\* the requests the active, read and write buffers hold
HeldRequests ==
  { m_active_buffer[i] : i \in 1 .. Len(m_active_buffer) }
    \cup { m_read_buffer[i] : i \in 1 .. Len(m_read_buffer) }
    \cup { m_write_buffer[i] : i \in 1 .. Len(m_write_buffer) }

\* the sequences without repetition of requests of S
RECURSIVE Arrangements(_)
Arrangements(S) ==
  {<<>>} \cup UNION { { <<r>> \o b : b \in Arrangements(S \ {r}) } : r \in S }

\* the buffers that can be formed of held requests, in any order; the
\* active, read and write buffers are among them
HeldBuffers == Arrangements(HeldRequests)

\* the request is ready at clk: check_ready of the command that
\* get_preq_command resolves for it
ReadyAt(d, clk, req) ==
  dram_check_ready(d, dram_get_preq_command(d, req.final_command, req.addr_vec),
                   req.addr_vec, clk)

\* whether each of the requests is ready at clk
ReadyMap(d, clk, reqs) == [r \in reqs |-> ReadyAt(d, clk, r)]

\* position i comes before position j in the FR-FCFS order: ready before
\* not ready, then smaller arrive, then earlier position
Precedes(ready, b, i, j) ==
  \/ ready[b[i]] /\ ~ready[b[j]]
  \/ /\ ready[b[i]] = ready[b[j]]
     /\ \/ b[i].arrive < b[j].arrive
        \/ b[i].arrive = b[j].arrive /\ i < j

\* position it is the one FR-FCFS selects in buffer b: end() (0) for an empty
\* buffer, otherwise the position that precedes every other one, a ready
\* one whenever some request of the buffer is ready
Selected(ready, b, it) ==
  IF Len(b) = 0
  THEN it = 0
  ELSE /\ it \in 1 .. Len(b)
       /\ \A j \in 1 .. Len(b) : j # it => Precedes(ready, b, it, j)
       /\ (\E j \in 1 .. Len(b) : ready[b[j]]) => ready[b[it]]

\* get_best_request returns the selected position of each of the buffers
AllSelected(d, clk, ready, buffers) ==
  \A b \in buffers : Selected(ready, b, get_best_request(d, clk, b).it)

\* C14: for every buffer of held requests, at the clock of the next tick,
\* FRFCFS::get_best_request returns end() when the buffer is empty and
\* otherwise the position that precedes every other one in the FR-FCFS
\* order (ready before not ready, then smaller arrive, then earlier
\* position); the request it returns is ready whenever some request of the
\* buffer is.
C14_FrFcfsSelection ==
  AllSelected(dram, m_clk + 1, ReadyMap(dram, m_clk + 1, HeldRequests),
              HeldBuffers)

\* a buffer of three requests whose first request is not ready and arrived
\* first, and whose best request is a ready one further back
C14_Witness ==
  \E b \in HeldBuffers :
     /\ Len(b) = 3
     /\ ~ReadyAt(dram, m_clk + 1, b[1])
     /\ b[1].arrive <= b[2].arrive /\ b[1].arrive <= b[3].arrive
     /\ get_best_request(dram, m_clk + 1, b).it # 1
     /\ ReadyAt(dram, m_clk + 1, b[get_best_request(dram, m_clk + 1, b).it])

\* the call left the buffer called on (before, after) as it was but for the
\* command and scratchpad slots 0 and 1 of its requests, and left every
\* command as get_preq_command resolves it
BufferFrame(d, before, after) ==
  /\ Len(after) = Len(before)
  /\ \A i \in 1 .. Len(before) :
        /\ [after[i] EXCEPT !.command = before[i].command,
                            !.scratchpad = before[i].scratchpad] = before[i]
        /\ after[i].scratchpad[3] = before[i].scratchpad[3]
        /\ after[i].scratchpad[4] = before[i].scratchpad[4]
        /\ after[i].command =
             dram_get_preq_command(d, after[i].final_command, after[i].addr_vec)

\* C15: a call of get_best_request (FRFCFS or PRACScheduler) on a buffer
\* leaves the device (node states, earliest-ready cycles, command
\* histories), the clock, pending and the other buffers as they were; the
\* buffer called on keeps its requests and their order, and every field of
\* them but command and scratchpad slots 0 and 1; afterwards the command of
\* each of its requests is get_preq_command(final_command, addr_vec).
C15_SchedulerFrame ==
  [][call'.op = "get_best_request" =>
       /\ dram' = dram
       /\ m_clk' = m_clk /\ pending' = pending
       /\ m_priority_buffer' = m_priority_buffer
       /\ call'.buffer # "active" => m_active_buffer' = m_active_buffer
       /\ call'.buffer # "read" => m_read_buffer' = m_read_buffer
       /\ call'.buffer # "write" => m_write_buffer' = m_write_buffer
       /\ call'.buffer = "active" => BufferFrame(dram', m_active_buffer, m_active_buffer')
       /\ call'.buffer = "read" => BufferFrame(dram', m_read_buffer, m_read_buffer')
       /\ call'.buffer = "write" => BufferFrame(dram', m_write_buffer, m_write_buffer')
       /\ call'.scheduler = "FRFCFS" =>
            \A i \in 1 .. Len(m_active_buffer) :
               m_active_buffer'[i].scratchpad = m_active_buffer[i].scratchpad]_vars

\* each scheduler has been called on a buffer of two requests in which it
\* changed a command; the PRAC scheduler also wrote a scratchpad slot
C15_Witness ==
  /\ call.op = "get_best_request"
  /\ call.scheduler = "PRAC"
  /\ Len(BufferOf(call.buffer)) >= 2
  /\ \E i \in 1 .. Len(BufferOf(call.buffer)) :
        /\ BufferOf(call.buffer)[i].scratchpad # <<0, 0, 0, 0>>
        /\ BufferOf(call.buffer)[i].command # NoCommand
        /\ BufferOf(call.buffer)[i].command # BufferOf(call.buffer)[i].final_command
  /\ dram # InitDevice

\* the names of the steps of a tick, in order
StepNames(steps) == [i \in 1 .. Len(steps) |-> steps[i].name]

C17_ActiveBuffer ==
  /\ \A i \in 1 .. Len(m_active_buffer) :
        /\ log[m_active_buffer[i].id].n_opening >= 1
        /\ log[m_active_buffer[i].id].n_final = 0
  /\ \A b \in {m_read_buffer, m_write_buffer, m_priority_buffer} :
        \A i \in 1 .. Len(b) : log[b[i].id].n_opening = 0

\* a request is in the active buffer, opened and not yet served, while
\* others wait in the priority buffer and in the read or write buffer
C17_Witness ==
  /\ Len(m_active_buffer) >= 1
  /\ Len(m_read_buffer) + Len(m_write_buffer) >= 1
  /\ Len(m_priority_buffer) >= 1
  /\ \E i \in 1 .. Len(m_active_buffer) :
        log[m_active_buffer[i].id].n_issued >= 1

\* C18: after a tick at clock clk that issued the final command of a read,
\* the read is in no buffer and is the last request of pending, with
\* depart = clk + read_latency; hence every read served by the device,
\* waiting in pending or completed, has depart - arrive >= read_latency.
C18_ReadDeparture ==
  /\ (/\ call.op = "tick" /\ tk.found
      /\ log[tk.id].type_id = RequestType.Read
      /\ tk.command = m_request_translations(RequestType.Read))
     => /\ tk.id \notin BufferIds(m_active_buffer) \cup BufferIds(m_read_buffer)
                        \cup BufferIds(m_write_buffer)
                        \cup BufferIds(m_priority_buffer)
        /\ Len(pending) >= 1
        /\ pending[Len(pending)].id = tk.id
        /\ pending[Len(pending)].depart = m_clk + m_read_latency
        /\ \A i \in 1 .. Len(pending) - 1 : pending[i].id # tk.id
  /\ \A q \in {pending, completed} :
        \A i \in 1 .. Len(q) :
           ~log[q[i].id].forwarded =>
              q[i].depart - q[i].arrive >= m_read_latency

\* a tick has just issued the final command of a read that waited longer
\* than it takes to open its row, and an earlier served read has completed
C18_Witness ==
  /\ call.op = "tick" /\ tk.found
  /\ log[tk.id].type_id = RequestType.Read
  /\ tk.command = m_request_translations(RequestType.Read)
  /\ pending[Len(pending)].depart - pending[Len(pending)].arrive > m_read_latency + 2
  /\ \E i \in 1 .. Len(completed) : ~log[completed[i].id].forwarded

\* node n is on the target path of addr_vec: update_timing takes it as a
\* target, not as a sibling
OnTargetPath(n, addr_vec) ==
  \A l \in 0 .. NodeLevel(n) :
     AV(addr_vec, l) = -1 \/ AV(addr_vec, l) = n[l + 1]

\* the clocks at which command c was issued at node n, oldest first
RECURSIVE IssueClocks(_, _, _)
IssueClocks(issued, n, c) ==
  IF Len(issued) = 0 THEN <<>>
  ELSE IssueClocks(SubSeq(issued, 1, Len(issued) - 1), n, c)
       \o (IF issued[Len(issued)].command = c
              /\ OnTargetPath(n, issued[Len(issued)].addr_vec)
           THEN <<issued[Len(issued)].clk>> ELSE <<>>)

\* the edge holds at node n after the issues at the clocks clks
EdgeHolds(d, n, t, clks) ==
  (~t.sibling /\ Len(clks) >= t.window) =>
     d.m_cmd_ready_clk[n][t.cmd] >= clks[Len(clks) - t.window + 1] + t.val

\* C19: after any sequence of issued commands, for every node n, command c
\* and timing edge (c -> c', window w, value v, not sibling) of the level of
\* n: when c was issued at least w times with n on its target path, the
\* earliest ready clock of c' at n is at least the clock of the w-th most
\* recent of these issues plus v.
C19_TimingEdges ==
  \A n \in Nodes : \A c \in m_commands :
     \A k \in 1 .. Len(m_timing_cons(NodeLevel(n), c)) :
        EdgeHolds(dram, n, m_timing_cons(NodeLevel(n), c)[k],
                  IssueClocks(Issued, n, c))

\* ACT was issued three times, so that the window of two of nFAW has moved
\* on, and the ready clock of ACT at the channel is that of the nFAW edge
C19_Witness ==
  /\ Len(IssueClocks(Issued, <<0>>, "ACT")) = 3
  /\ dram.m_cmd_ready_clk[<<0>>]["ACT"] =
       IssueClocks(Issued, <<0>>, "ACT")[2] + m_timing_vals.nFAW
  /\ dram.m_cmd_ready_clk[<<0>>]["ACT"] >
       IssueClocks(Issued, <<0>>, "ACT")[3] + m_timing_vals.nRRD

\* by the commands issued, the row of the bank is open: an ACT opened it
\* and no PRE of the bank and no PREA came after
OpenByIssues(issued, bank, row) ==
  \E i \in 1 .. Len(issued) :
     /\ issued[i].command = "ACT"
     /\ BankOf(issued[i].addr_vec) = bank
     /\ AV(issued[i].addr_vec, m_levels.row) = row
     /\ \A j \in i + 1 .. Len(issued) :
           ~(/\ issued[j].command \in {"PRE", "PREA"}
             /\ OnTargetPath(bank, issued[j].addr_vec))

\* C20: when check_rowbuffer_hit(cmd, addr_vec) returns true, the bank that
\* addr_vec names is Opened and its row_state holds the row that addr_vec
\* names, and by the commands issued that row was activated and not
\* precharged since; no hit is reported for a closed bank, for another row
\* than the open one, or for a row closed by PRE or PREA.
C20_RowCoherence ==
  \A cmd \in m_commands : \A a \in Addrs :
     dram_check_rowbuffer_hit(dram, cmd, AddrMap(a)) =>
        /\ dram.m_state[BankOf(AddrMap(a))] = "Opened"
        /\ AV(AddrMap(a), m_levels.row) \in dram.m_row_state[BankOf(AddrMap(a))]
        /\ OpenByIssues(Issued, BankOf(AddrMap(a)), AV(AddrMap(a), m_levels.row))

\* a row was opened, closed and another row of the bank opened: a hit is
\* reported for the open row, none for the closed one nor for the same row
\* of the other bank
C20_Witness ==
  /\ Len(Issued) = 3
  /\ Issued[2].command \in {"PRE", "PREA"}
  /\ dram_check_rowbuffer_hit(dram, "RD", AddrMap(1))
  /\ ~dram_check_rowbuffer_hit(dram, "RD", AddrMap(0))
  /\ ~dram_check_rowbuffer_hit(dram, "RD", AddrMap(3))
  /\ OpenByIssues(SubSeq(Issued, 1, 1), BankOf(AddrMap(0)), 0)

\* C21: when the send of a frontend tick returns false the frontend does
\* not advance its trace index, so that the same entry is sent again by the
\* next tick and no entry of the trace is skipped.
C21_BackpressureRetry ==
  [][(next_id' # next_id /\ call'.op = "send" /\ ~call'.ret)
       => m_curr_trace_idx' = m_curr_trace_idx]_vars

\* C22: the plugins leave the chosen request and the buffers as they found
\* them: the request that issues after the plugin step has the command,
\* final command, address vector, type, arrival and departure that
\* schedule_request chose, the command that issues is the chosen one, and a
\* tick that found no request has the plugin store nothing
C22_PluginFrame ==
  call.op = "tick" =>
    IF tk.found
    THEN /\ tk.issued = [tk.chosen EXCEPT !.is_stat_updated = TRUE]
         /\ tk.command = tk.chosen.command
         /\ tk.addr_vec = tk.chosen.addr_vec
         /\ tk.stored = {tk.chosen.addr}
    ELSE /\ tk.stored = {}
         /\ tk.issued = NoRequest

\* a tick whose plugins were passed a read that does not issue its final
\* command, at a clock of 2 or more
C22_Witness ==
  /\ call.op = "tick"
  /\ tk.found
  /\ tk.chosen.type_id = RequestType.Read
  /\ tk.chosen.command # tk.chosen.final_command
  /\ tk.stored = {tk.chosen.addr}
  /\ m_clk >= 2

\* the row counters of the statistics
RowCounters(st) ==
  << st.s_row_hits, st.s_row_misses, st.s_row_conflicts,
     st.s_read_row_hits, st.s_read_row_misses, st.s_read_row_conflicts,
     st.s_write_row_hits, st.s_write_row_misses, st.s_write_row_conflicts >>

\* C23: row statistics are credited once per request. The tick that issues
\* the first command of a read or write adds one to exactly one of row hits,
\* misses and conflicts (and to the read or write counter of the same kind):
\* hits when check_rowbuffer_hit(final_command) holds on the device before
\* the command issues, else conflicts when check_node_open holds, else
\* misses. No other step changes a row counter, so the three counters sum to
\* the number of reads and writes with an issued command, each total is the
\* sum of its read and write counter, and forwarded reads and priority
\* requests are credited nowhere
C23_RowStatsOnce ==
  [][LET first == /\ call'.op = "tick"
                  /\ tk'.found
                  /\ log[tk'.id].n_issued = 0
                  /\ tk'.chosen.type_id \in {RequestType.Read, RequestType.Write}
         hit  == dram_check_rowbuffer_hit(dram, tk'.chosen.final_command,
                                          tk'.chosen.addr_vec)
         open == dram_check_node_open(dram, tk'.chosen.final_command,
                                      tk'.chosen.addr_vec)
         rd   == IF tk'.chosen.type_id = RequestType.Read THEN 1 ELSE 0
         add  == IF ~first THEN <<0, 0, 0, 0, 0, 0, 0, 0, 0>>
                 ELSE IF hit THEN <<1, 0, 0, rd, 0, 0, 1 - rd, 0, 0>>
                 ELSE IF open THEN <<0, 0, 1, 0, 0, rd, 0, 0, 1 - rd>>
                 ELSE <<0, 1, 0, 0, rd, 0, 0, 1 - rd, 0>>
     IN  /\ RowCounters(stats') =
             [i \in 1 .. 9 |-> RowCounters(stats)[i] + add[i]]
         /\ stats'.s_row_hits = stats'.s_read_row_hits + stats'.s_write_row_hits
         /\ stats'.s_row_misses =
              stats'.s_read_row_misses + stats'.s_write_row_misses
         /\ stats'.s_row_conflicts =
              stats'.s_read_row_conflicts + stats'.s_write_row_conflicts
         /\ stats'.s_row_hits + stats'.s_row_misses + stats'.s_row_conflicts =
              Cardinality({ i \in 1 .. MaxReqs :
                             /\ log'[i].n_issued >= 1
                             /\ log'[i].type_id \in {RequestType.Read,
                                                     RequestType.Write} })]_vars

\* a hit, a miss and a conflict were credited and one request has issued
\* two commands
C23_Witness ==
  /\ stats.s_row_hits >= 1
  /\ stats.s_row_misses >= 1
  /\ stats.s_row_conflicts >= 1
  /\ \E i \in 1 .. MaxReqs : log[i].n_issued >= 2

\* C24: in scenario S3 the commands that issue are, in this order, ACT and RD
\* of the first read, then PRE, ACT and RD of the second read, each to the
\* bank and row of its read; the PRE therefore never precedes the first RD;
\* row_conflicts is 0 until the PRE issues and 1 from then on
C24_RowConflictScenario ==
  [][(call'.op = "tick" /\ tk'.found) =>
       LET k == log[1].n_issued + log[2].n_issued
           order == << <<1, "ACT">>, <<1, "RD">>,
                       <<2, "PRE">>, <<2, "ACT">>, <<2, "RD">> >>
       IN  /\ k < Len(order)
           /\ <<tk'.id, tk'.command>> = order[k + 1]
           /\ tk'.addr_vec = tk'.chosen.addr_vec
           /\ tk'.chosen.addr_vec = AddrMap(tk'.chosen.addr)
           /\ stats'.s_row_conflicts = IF k + 1 >= 3 THEN 1 ELSE 0
           /\ stats'.s_row_misses = 1
           /\ stats'.s_row_hits = 0]_vars

\* the five commands of the scenario have issued and both reads completed
C24_Witness ==
  /\ log[1].n_issued = 2
  /\ log[2].n_issued = 3
  /\ log[1].n_final = 1
  /\ log[2].n_final = 1
  /\ stats.s_row_conflicts = 1

\* C25: active-first selection. When the best request of the active buffer,
\* its command resolved on the device as the tick finds it, is ready, the
\* tick chooses it from the active buffer and issues that command unless the
\* closing guard refuses it; the priority, read and write buffers are then
\* not consulted: set_write_mode does not run, the write mode stays, and no
\* command of these buffers is resolved. When it is not ready, or the active
\* buffer is empty, the tick chooses nothing from the active buffer
C25_ActiveFirst ==
  [][call'.op = "tick" =>
       LET a == get_best_request(dram, m_clk + 1, m_active_buffer)
       IN  IF /\ a.it # 0
              /\ dram_check_ready(dram, a.buffer[a.it].command,
                                  a.buffer[a.it].addr_vec, m_clk + 1)
           THEN /\ tk'.src = "active"
                /\ tk'.found => /\ tk'.id = a.buffer[a.it].id
                                /\ tk'.command = a.buffer[a.it].command
                /\ ~tk'.found => tk'.guard_hit
                /\ tk'.wm_runs = 0
                /\ m_is_write_mode' = m_is_write_mode
                /\ m_read_buffer' = m_read_buffer
                /\ m_write_buffer' = m_write_buffer
                /\ m_priority_buffer' =
                     IF call'.refresh
                     THEN priority_send(m_priority_buffer,
                                        RefreshRequest(next_id)).buffer
                     ELSE m_priority_buffer
           ELSE tk'.src # "active"]_vars

\* a tick chose an active request while the priority buffer held a request
\* and a read or a write was ready
C25_Witness ==
  /\ call.op = "tick"
  /\ tk.found
  /\ tk.src = "active"
  /\ tk.prio_size >= 1
  /\ tk.rw_ready

C27_PracPrecedence ==
  (call.op = "get_best_request" /\ call.scheduler = "PRAC"
     /\ Len(BufferOf(call.buffer)) # 0) =>
    LET b == BufferOf(call.buffer)
        fits(i) == b[i].scratchpad[1] # 0
        ready(i) == b[i].scratchpad[2] # 0
        before(i, j) ==
          \/ fits(i) /\ ~fits(j)
          \/ /\ fits(i) = fits(j)
             /\ \/ ready(i) /\ ~ready(j)
                \/ /\ ready(i) = ready(j)
                   /\ \/ b[i].arrive < b[j].arrive
                      \/ b[i].arrive = b[j].arrive /\ i < j
    IN  /\ \A i \in 1 .. Len(b) :
             /\ b[i].command =
                  dram_get_preq_command(dram, b[i].final_command, b[i].addr_vec)
             /\ b[i].scratchpad[2] =
                  (IF dram_check_ready(dram, b[i].command, b[i].addr_vec, m_clk)
                   THEN 1 ELSE 0)
             /\ b[i].scratchpad[1] =
                  (IF m_clk + call.prac.min_cycles[b[i].id]
                        < call.prac.next_recovery
                   THEN 1 ELSE 0)
        /\ call.it \in 1 .. Len(b)
        /\ \A j \in 1 .. Len(b) : j # call.it => before(call.it, j)

\* the PRAC scheduler returned the second request of the read buffer, which
\* fits and is not ready, over the first one, which is ready and does not fit
C27_Witness ==
  /\ call.op = "get_best_request"
  /\ call.scheduler = "PRAC"
  /\ call.buffer = "read"
  /\ Len(m_read_buffer) = 2
  /\ call.it = 2
  /\ m_read_buffer[1].scratchpad = <<0, 1, 0, 0>>
  /\ m_read_buffer[2].scratchpad = <<1, 0, 0, 0>>

\* the largest clock of a non-empty set of clocks
SetMax(S) == CHOOSE x \in S : \A y \in S : y <= x

\* the last call of issue_command
LastIssued(c) == c.issued[Len(c.issued)]

\* C28: max-combining. Every call of issue_command leaves the ready clock
\* of every command at every node at least what it was, and at a node on
\* the target path the ready clock of c' becomes the maximum of its old
\* value and of past + val over the edges to c' whose window of history is
\* filled, whatever the order of the edges in the table
C28_MaxCombining ==
  [][call'.op = "issue_command" =>
       \A n \in Nodes : \A c \in m_commands :
          LET last == LastIssued(call')
              edges == m_timing_cons(NodeLevel(n), last.command)
              h == dram'.m_cmd_history[n][last.command]
          IN  /\ dram'.m_cmd_ready_clk[n][c] >= dram.m_cmd_ready_clk[n][c]
              /\ OnTargetPath(n, last.addr_vec) =>
                   dram'.m_cmd_ready_clk[n][c] =
                     SetMax({dram.m_cmd_ready_clk[n][c]} \cup
                            { h[edges[k].window] + edges[k].val :
                                k \in { j \in 1 .. Len(edges) :
                                          /\ edges[j].cmd = c
                                          /\ ~edges[j].sibling
                                          /\ h[edges[j].window] >= 0 } })]_vars

\* three ACTs were issued: the ready clock of ACT at the channel is that of
\* the nFAW edge, above that of the nRRD edge and above its old value
C28_Witness ==
  /\ Len(Issued) = 3
  /\ \A i \in 1 .. 3 : Issued[i].command = "ACT"
  /\ dram.m_cmd_ready_clk[<<0>>]["ACT"] = Issued[2].clk + m_timing_vals.nFAW
  /\ Issued[2].clk + m_timing_vals.nFAW > Issued[3].clk + m_timing_vals.nRRD
  /\ dram.m_cmd_ready_clk[<<0>>]["PREA"] = Issued[3].clk + m_timing_vals.nRAS

C30_SiblingPath ==
  [][call'.op = "issue_command" =>
       \A n \in Nodes :
          LET last == LastIssued(call')
              edges == m_timing_cons(NodeLevel(n), last.command)
          IN  ~OnTargetPath(n, last.addr_vec) =>
                /\ dram'.m_cmd_history[n] = dram.m_cmd_history[n]
                /\ IF OnTargetPath(SubSeq(n, 1, Len(n) - 1), last.addr_vec)
                   THEN \A c \in m_commands :
                          dram'.m_cmd_ready_clk[n][c] =
                            SetMax({dram.m_cmd_ready_clk[n][c]} \cup
                                   { last.clk + edges[k].val :
                                       k \in { j \in 1 .. Len(edges) :
                                                 /\ edges[j].cmd = c
                                                 /\ edges[j].sibling } })
                   ELSE dram'.m_cmd_ready_clk[n] = dram.m_cmd_ready_clk[n]]_vars

\* an ACT in bank group 1, then a RD in bank group 0: bank group 1 was
\* visited as a sibling, its ready clock of RD is that of the nCCDS edge,
\* its history of RD is unused, and its bank keeps the ready clock the ACT
\* gave it
C30_Witness ==
  /\ Len(Issued) = 2
  /\ Issued[1].command = "ACT" /\ Issued[1].addr_vec = AddrMap(2)
  /\ Issued[2].command = "RD" /\ Issued[2].addr_vec = AddrMap(0)
  /\ dram.m_cmd_ready_clk[<<0, 1>>]["RD"] = Issued[2].clk + m_timing_vals.nCCDS
  /\ dram.m_cmd_ready_clk[<<0, 0>>]["RD"] = Issued[2].clk + m_timing_vals.nCCDL
  /\ dram.m_cmd_history[<<0, 1>>]["RD"] = <<-1>>
  /\ dram.m_cmd_ready_clk[<<0, 1, 0>>]["RD"] = Issued[1].clk + m_timing_vals.nRCD

C34_EccOncePerRequest ==
  \A i \in 1 .. MaxReqs :
     log[i].type_id \in {RequestType.Read, RequestType.Write} =>
        /\ log[i].n_ecc <= 1
        /\ log[i].n_final = 1 => log[i].n_ecc = 1

\* C35: drain: once no send and no priority_send is made any more and the
\* ticks continue, every request of the read, write, priority and active
\* buffers gets its final command and every entry of pending is popped: the
\* buffers and pending become empty and stay empty
C35_Drain ==
  <>[](/\ m_read_buffer = <<>> /\ m_write_buffer = <<>>
       /\ m_priority_buffer = <<>> /\ m_active_buffer = <<>>
       /\ pending = <<>>
       /\ \A i \in 1 .. MaxReqs :
            log[i].accepted /\ ~log[i].forwarded => log[i].n_final = 1)

\* drained after a read was served behind a write and a refresh: the
\* write-mode flag was set, a priority request was at the head and all
\* three have gone
C35_Witness ==
  /\ m_read_buffer = <<>> /\ m_write_buffer = <<>>
  /\ m_priority_buffer = <<>> /\ m_active_buffer = <<>>
  /\ pending = <<>>
  /\ m_clk >= DrainFrom
  /\ next_id = MaxReqs + 1
  /\ \E i, j, k \in 1 .. MaxReqs :
       /\ log[i].type_id = RequestType.Read /\ log[i].n_final = 1
       /\ log[j].type_id = RequestType.Write /\ log[j].n_final = 1
       /\ ~log[k].accepted /\ log[k].n_final = 1
  /\ Len(completed) = 1

\* C36: no request is lost in transit: every accepted request that was not
\* forwarded and has not had its final command issued is in exactly one of
\* the read, write, priority and active buffers, and a request for which
\* the last tick issued an opening command that was not its final command
\* is in the active buffer, whatever the active buffer held
C36_NoRequestLost ==
  LET Held(b, i) == Cardinality({k \in 1 .. Len(b) : b[k].id = i})
  IN  /\ \A i \in 1 .. MaxReqs :
           log[i].accepted /\ ~log[i].forwarded /\ log[i].n_final = 0 =>
              Held(m_read_buffer, i) + Held(m_write_buffer, i)
                + Held(m_priority_buffer, i) + Held(m_active_buffer, i) = 1
      /\ tk.found /\ m_command_meta[tk.command].is_opening
            /\ tk.command # tk.issued.final_command =>
              Held(m_active_buffer, tk.id) = 1

\* C37: read after write: a read accepted after a write to the same address
\* and not forwarded (the write had left the write buffer for the active
\* buffer) never gets its final command while the write still waits for its
\* own: no tick issues RD for a read while an earlier write to the address
\* of the read is in the write or the active buffer
C37_ReadAfterWrite ==
  [][call'.op = "tick" /\ tk'.found /\ tk'.command = "RD"
       /\ tk'.issued.type_id = RequestType.Read
     => \A b \in {m_write_buffer, m_active_buffer} :
          \A k \in 1 .. Len(b) :
            ~(/\ b[k].type_id = RequestType.Write
              /\ b[k].addr = tk'.issued.addr
              /\ b[k].id < tk'.id)]_vars

\* C38: a tick issues at most one device command, and only for a request
\* schedule_request found and whose command check_ready accepts at the
\* cycle of the tick: the device after the tick is the device after that
\* one issue_command, or the device as it was; send and priority_send leave
\* the device as it is
C38_OneCommandPerTick ==
  [][/\ call'.op \in {"send", "priority_send"} => dram' = dram
     /\ call'.op = "tick" =>
          IF tk'.found
          THEN /\ dram_check_ready(dram, tk'.command, tk'.addr_vec, m_clk')
               /\ dram' = dram_issue_command(dram, tk'.command, tk'.addr_vec,
                                             m_clk')
          ELSE dram' = dram]_vars

\* a tick issued the final command of a request while a second request was
\* ready in the read or the write buffer, and a send followed
C38_Witness ==
  /\ call.op = "send" /\ call.ret
  /\ tk.found /\ tk.command \in {"RD", "WR"} /\ tk.rw_ready
  /\ Len(m_read_buffer) + Len(m_write_buffer) >= 2

\* C39: priority requests are served head first: priority_send appends at
\* the tail and leaves the waiting requests in place, a tick resolves and
\* changes only the head, and a command issued for a request of the
\* priority buffer is issued for the request that was enqueued first
C39_PriorityHeadFirst ==
  [][/\ call'.op = "priority_send" =>
          /\ Len(m_priority_buffer') >= Len(m_priority_buffer)
          /\ SubSeq(m_priority_buffer', 1, Len(m_priority_buffer))
                = m_priority_buffer
     /\ call'.op = "tick" =>
          /\ \A k \in 2 .. Len(m_priority_buffer) :
                \E j \in 1 .. Len(m_priority_buffer') :
                   m_priority_buffer'[j] = m_priority_buffer[k]
          /\ tk'.found /\ tk'.src = "priority" =>
                IF Len(m_priority_buffer) # 0
                THEN tk'.id = m_priority_buffer[1].id
                ELSE call'.refresh /\ tk'.id = next_id]_vars

\* a tick issued the final command of the head of the priority buffer
\* while a second refresh waited behind it, and the second is now the head
C39_Witness ==
  /\ call.op = "tick"
  /\ tk.found /\ tk.src = "priority" /\ tk.command = "REFab"
  /\ tk.prio_size = 2
  /\ Len(m_priority_buffer) = 1
  /\ m_priority_buffer[1].id > tk.id

\* C40: read-latency accounting: a tick that pops a read served by the
\* device adds depart - arrive of that read to s_read_latency, a tick that
\* pops a forwarded read adds nothing, and no other step changes the counter
C40_ReadLatency ==
  [][IF call'.op = "tick" /\ Len(completed') > Len(completed)
     THEN LET req == completed'[Len(completed')]
          IN  stats'.s_read_latency - stats.s_read_latency =
                IF log[req.id].forwarded THEN 0 ELSE req.depart - req.arrive
     ELSE stats'.s_read_latency = stats.s_read_latency]_vars

====
